---- MODULE Spec2Model ----
(***************************************************************************)
(* The batch refresh scheduler of backend/server.py (DataUpdateScheduler)  *)
(* and the document store it writes.  Coroutines of the asyncio event loop *)
(* are processes; a step of a process is the code between two awaits.      *)
(*                                                                         *)
(* Units: clock values are whole minutes; ndvi is kept in 1/10^7 while it  *)
(* is computed and in 1/1000 once rounded to three decimals.               *)
(* Cache documents keep the key, the value and the data_status fields;     *)
(* lat/lng, source and the updated_at / stored_at strings are left out.    *)
(***************************************************************************)
EXTENDS Integers, Sequences, FiniteSets, TLC

\* ------------------------------------------------------------------ bounds
MaxTriggers == 1   \* POST /api/trigger-update requests in one behaviour
MaxFaults == 1     \* answers to a routine that are not the default one
MaxElapsed == 1    \* minutes that can pass between two readings of the clock
MaxSetBack == 1    \* minutes the clock can be set back between two readings
MaxRegions == 2    \* entries of each location / region list that are modelled
MaxCalls == 2      \* routine calls in one behaviour of the routine harness
MaxClock == 12     \* latest clock value, in minutes, of the function harness
MaxEvents == 4     \* cached conflict events the zone assessment is called on
MaxMinutes == 2    \* minutes that pass in one behaviour of the read harness
MaxHistory == 2    \* exchanges recorded in ai_history in one behaviour

\* --------------------------------------------------------------- constants
None == -1000000                 \* Python's None where a number is expected: a value
                                 \* no coordinate, count or clock reading takes
update_interval == 10            \* timedelta(minutes=10)
NewsLimit == 15                  \* reports[:15]

LIVE == "LIVE"
CACHED == "CACHED"
ESTIMATED == "ESTIMATED"
HISTORICAL == "HISTORICAL"
STATIC == "STATIC"

sources == <<"weather", "ndvi", "soil_moisture", "chirps_rainfall", "nighttime_lights",
             "conflict", "fire", "flood", "disasters", "news", "methane">>

\* the collection each routine of the gather writes, in the order of sources
collections == <<"weather_cache", "ndvi_cache", "soil_moisture_cache", "chirps_cache",
                 "nightlights_cache", "acled_events", "fire_cache", "flood_cache",
                 "disaster_cache", "news_cache", "methane_cache">>

Routines == 1..Len(sources)

Min(a, b) == IF a < b THEN a ELSE b
Max(a, b) == IF a > b THEN a ELSE b

\* the prefix of a location list that is modelled: every loop over a list
\* of locations or regions, the fallback tables included, runs over it
Modelled(list) == SubSeq(list, 1, Min(MaxRegions, Len(list)))

weather_locations == <<"Juba", "Malakal", "Bentiu", "Bor", "Rumbek", "Aweil", "Pibor", "Tonj">>
ndvi_regions == <<"Central Equatoria", "Jonglei", "Unity", "Upper Nile", "Lakes", "Warrap",
                  "Western Bahr el Ghazal", "Pibor Area">>
soil_regions == <<"Jonglei", "Unity", "Upper Nile", "Lakes", "Warrap", "Pibor Area">>
chirps_regions == <<"Central Equatoria", "Jonglei", "Unity", "Upper Nile", "Lakes", "Warrap">>
nightlights_locations == <<"Juba", "Malakal", "Bentiu", "Bor", "Rumbek", "Pibor">>
flood_regions == <<"White Nile Basin", "Sobat Basin", "Sudd Wetlands">>
methane_regions == <<"Jonglei", "Unity", "Lakes", "Warrap", "Upper Nile", "Central Equatoria">>

\* fallback ndvi per region, in 1/1000
fallback_ndvi(name) ==
    CASE name = "Central Equatoria" -> 630
      [] name = "Jonglei" -> 350
      [] name = "Unity" -> 430
      [] name = "Upper Nile" -> 340
      [] name = "Lakes" -> 570
      [] name = "Warrap" -> 420
      [] name = "Western Bahr el Ghazal" -> 480
      [] name = "Pibor Area" -> 310
      [] OTHER -> 400

\* cattle_density of the methane estimate's regions
cattle_density(name) ==
    CASE name = "Warrap" -> "very_high"
      [] name \in {"Jonglei", "Lakes"} -> "high"
      [] OTHER -> "medium"

\* ---------------------------------------------------------- document store
\* A collection is the sequence of its documents; a document is a record.
Merge(old, new) ==
    [f \in (DOMAIN old) \cup (DOMAIN new) |-> IF f \in DOMAIN new THEN new[f] ELSE old[f]]

Matches(doc, key, val) == key \in DOMAIN doc /\ doc[key] = val

\* an update_one that inserts without looking for a match
update_one_insert(coll, key, val, fields) == Append(coll, Merge([f \in {key} |-> val], fields))

\* update_one(filter, {"$set": fields}, upsert=True): the first match is
\* updated in place; without a match the filter and the fields are inserted
update_one(coll, key, val, fields) ==
    LET hits == {i \in 1..Len(coll) : Matches(coll[i], key, val)}
    IN  IF hits = {}
        THEN Append(coll, Merge([f \in {key} |-> val], fields))
        ELSE LET i == CHOOSE j \in hits : \A k \in hits : j <= k
             IN  [coll EXCEPT ![i] = Merge(@, fields)]

\* a delete_many that removes nothing
delete_many_nothing(coll) == coll

delete_many(coll) == <<>>

insert_many(coll, docs) == coll \o docs

\* find_one({"_id": id}): the document, or the empty dict of get_last_update_info
NoDoc == [f \in {} |-> 0]

find_one(coll, key, val) ==
    LET hits == {i \in 1..Len(coll) : Matches(coll[i], key, val)}
    IN  IF hits = {} THEN NoDoc
        ELSE coll[CHOOSE j \in hits : \A k \in hits : j <= k]

\* One awaited write of a routine, and what it does to the collection when
\* it takes effect
UpdateOne(key, val, fields) == [op |-> "update_one", key |-> key, val |-> val, fields |-> fields]
DeleteMany == [op |-> "delete_many"]
InsertMany(docs) == [op |-> "insert_many", docs |-> docs]

Apply(op, coll) ==
    CASE op.op = "update_one" -> update_one(coll, op.key, op.val, op.fields)
      [] op.op = "delete_many" -> delete_many(coll)
      [] op.op = "insert_many" -> insert_many(coll, op.docs)

\* the store scans a collection in the order its documents were given to
\* it: the document at place p is the (deleted + p)-th, where deleted counts
\* the documents removed so far; Removes is what a write adds to that count
Removes(op, coll) == IF op.op = "delete_many" THEN Len(coll) ELSE 0

\* the collection after the writes ops[k], ops[k + 1], ...
RECURSIVE ApplyAll(_, _, _)
ApplyAll(ops, coll, k) ==
    IF k > Len(ops) THEN coll
    ELSE CHOOSE c \in {ApplyAll(ops, next, k + 1) : next \in {Apply(ops[k], coll)}} : TRUE

\* What a routine does, as its gather and the store see it: ops are the
\* awaited writes that take effect, in order (an http request, a sleep and a
\* write that raises change nothing); awaits tells whether the routine
\* reaches an await at all; then the string it returns or the exception it
\* raises.  No routine reads the store, so ops depend on the answers only.
Returned(ops, text, n) ==
    [ops |-> ops, awaits |-> TRUE, raised |-> FALSE, message |-> <<text, n>>]
Raised(ops, text) ==
    [ops |-> ops, awaits |-> TRUE, raised |-> TRUE, message |-> <<text, 0>>]

\* the routine ends in the step it begins in
NoAwait(r) == [r EXCEPT !.awaits = FALSE]

\* a loop whose only awaits are its writes: awaited is the number of writes
\* it awaits, those that raise included; the count of the message is the
\* number of writes that took effect
Looped(ops, awaited, text) ==
    [ops |-> ops, awaits |-> awaited > 0, raised |-> FALSE, message |-> <<text, Len(ops)>>]

\* ------------------------------------------------------ upstream answers
\* What one upstream call answers.  status -1 stands for a call that raises
\* (timeout, connection error, a body that is not JSON); body is what the
\* routine reads from a 200 answer.  An input of a routine is the answer (or
\* the answers, one per location) and db_fail: 0, or the number of the
\* routine's database operation that raises, and uuids: the number of uuids
\* drawn before the routine, whose k-th call of uuid.uuid4() returns
\* uuids + k.
Failed == [status |-> -1]
Status(code) == [status |-> code]
Ok(body) == [status |-> 200, body |-> body]

Input(resp, db_fail) == [resp |-> resp, db_fail |-> db_fail, uuids |-> 0]

\* a row of a JSON list that is a dict, as the routines expect
IsDict(row) == "not_a_dict" \notin DOMAIN row

\* the documents are stored without a tag
Tag_untagged(docs, status) == docs

Tag(docs, status) == [i \in 1..Len(docs) |-> Merge(docs[i], [data_status |-> status])]

\* a conflict routine that empties the collection when the call failed or
\* the status is not 200
_update_conflict_data_clearing(inp) ==
    LET resp == inp.resp
    IN  IF resp.status = -1 THEN Raised(<<DeleteMany>>, "Conflict update failed")
        ELSE IF resp.status = 200
        THEN IF ~IsDict(resp.body) THEN Raised(<<>>, "Conflict update failed")
             ELSE LET events == IF "data" \in DOMAIN resp.body THEN resp.body.data ELSE <<>>
                  IN  IF inp.db_fail = 1 THEN Raised(<<>>, "Conflict update failed")
                      ELSE IF events = <<>>
                      THEN Returned(<<DeleteMany>>, "Stored ACLED events (LIVE)", 0)
                      ELSE IF (\E i \in 1..Len(events) : ~IsDict(events[i])) \/ inp.db_fail = 2
                      THEN Raised(<<DeleteMany>>, "Conflict update failed")
                      ELSE Returned(<<DeleteMany, InsertMany(Tag(events, LIVE))>>,
                                    "Stored ACLED events (LIVE)", Len(events))
        ELSE Returned(<<DeleteMany>>, "ACLED API returned - using cached data", resp.status)

\* ---------------------------------------------------- list-valued routines
\* _update_conflict_data: the request is awaited, then delete_many, then
\* insert_many when there are events
_update_conflict_data(inp) ==
    LET resp == inp.resp
    IN  IF resp.status = -1 THEN Raised(<<>>, "Conflict update failed")
        ELSE IF resp.status = 200
        THEN IF ~IsDict(resp.body) THEN Raised(<<>>, "Conflict update failed")
             ELSE LET events == IF "data" \in DOMAIN resp.body THEN resp.body.data ELSE <<>>
                  IN  IF inp.db_fail = 1 THEN Raised(<<>>, "Conflict update failed")
                      ELSE IF events = <<>>
                      THEN Returned(<<DeleteMany>>, "Stored ACLED events (LIVE)", 0)
                      ELSE IF (\E i \in 1..Len(events) : ~IsDict(events[i])) \/ inp.db_fail = 2
                      THEN Raised(<<DeleteMany>>, "Conflict update failed")
                      ELSE Returned(<<DeleteMany, InsertMany(Tag(events, LIVE))>>,
                                    "Stored ACLED events (LIVE)", Len(events))
        ELSE Returned(<<>>, "ACLED API returned - using cached data", resp.status)

\* A CSV cell is <<kind, number>>, kind "num", "empty" or "bad" (not a number).
Num(v) == <<"num", v>>
EmptyCell == <<"empty", 0>>
BadCell == <<"bad", 0>>

\* float(cell) if cell else None
CellValue(cell) == IF cell[1] = "num" THEN cell[2] ELSE None

\* the row raises ValueError in float()
RowRaises(values) ==
    \E k \in 1..Min(3, Len(values)) : values[k][1] = "bad"

\* the hotspot of a CSV row (lat, lng in 1/100 degree)
FireOfRow(values) ==
    [lat |-> CellValue(values[1]), lng |-> CellValue(values[2]),
     brightness |-> IF Len(values) > 2 THEN CellValue(values[3]) ELSE None,
     data_status |-> LIVE]

\* if fire["lat"] and fire["lng"]: None (an empty cell) and 0.0 are falsy,
\* every other number is kept
FireKept(values) ==
    \A k \in 1..2 : values[k][1] = "num" /\ values[k][2] # 0

\* "for line in lines[1:]", from the i-th line on: the hotspot of every row
\* of two cells or more that parses and is kept, in the order of the rows
ParseFires(lines, i) ==
    LET kept == SelectSeq(SubSeq(lines, i, Len(lines)),
                          LAMBDA values : /\ Len(values) >= 2
                                          /\ ~RowRaises(values)
                                          /\ FireKept(values))
    IN  [k \in 1..Len(kept) |-> FireOfRow(kept[k])]

\* _update_fire_data: body is the CSV text as its lines, the header first
_update_fire_data(inp) ==
    LET resp == inp.resp
    IN  IF resp.status = -1 THEN Raised(<<>>, "Fire update failed")
        ELSE IF resp.status = 200 /\ resp.body # <<>> /\ Len(resp.body) > 1
        THEN LET fires == ParseFires(resp.body, 2)
             IN  IF inp.db_fail = 1 THEN Raised(<<>>, "Fire update failed")
                 ELSE IF fires = <<>>
                 THEN Returned(<<DeleteMany>>, "Stored fire hotspots (LIVE)", 0)
                 ELSE IF inp.db_fail = 2 THEN Raised(<<DeleteMany>>, "Fire update failed")
                 ELSE Returned(<<DeleteMany, InsertMany(fires)>>,
                               "Stored fire hotspots (LIVE)", Len(fires))
        ELSE Returned(<<>>, "No fire data available", 0)

\* _update_disaster_alerts: every exception ends in a returned string
_update_disaster_alerts(inp) ==
    LET resp == inp.resp
    IN  IF resp.status = -1 THEN Returned(<<>>, "GDACS unavailable", 0)
        ELSE IF resp.status = 200
        THEN LET events == IF IsDict(resp.body) /\ "features" \in DOMAIN resp.body
                           THEN resp.body.features ELSE <<>>
             IN  IF inp.db_fail = 1 THEN Returned(<<>>, "GDACS unavailable", 0)
                 ELSE IF events = <<>>
                 THEN Returned(<<DeleteMany>>, "Stored GDACS alerts", 0)
                 ELSE IF (\E i \in 1..Len(events) : ~IsDict(events[i])) \/ inp.db_fail = 2
                 THEN Returned(<<DeleteMany>>, "GDACS unavailable", 0)
                 ELSE Returned(<<DeleteMany, InsertMany(Tag(events, LIVE))>>,
                               "Stored GDACS alerts", Len(events))
        ELSE Returned(<<>>, "GDACS returned no data", 0)

\* the news item of a ReliefWeb report: the id is str(report["id"]), or the
\* string of the uuid drawn for the report when it has none
NewsItem(report, uuid) ==
    [id |-> IF "id" \in DOMAIN report THEN <<"str", report.id>> ELSE <<"uuid", uuid>>,
     title |-> IF "fields" \in DOMAIN report /\ "title" \in DOMAIN report.fields
               THEN report.fields.title ELSE "No title",
     data_status |-> LIVE]

\* _update_news_data: the items are built before the collection is cleared
_update_news_data(inp) ==
    LET resp == inp.resp
    IN  IF resp.status = -1 THEN Raised(<<>>, "News update failed")
        ELSE IF resp.status = 200
        THEN IF ~IsDict(resp.body) THEN Raised(<<>>, "News update failed")
             ELSE LET reports == IF "data" \in DOMAIN resp.body THEN resp.body.data ELSE <<>>
                      first == SubSeq(reports, 1, Min(NewsLimit, Len(reports)))
                  IN  IF \E i \in 1..Len(first) : ~IsDict(first[i])
                      THEN Raised(<<>>, "News update failed")
                      ELSE IF inp.db_fail = 1 THEN Raised(<<>>, "News update failed")
                      ELSE IF first = <<>>
                      THEN Returned(<<DeleteMany>>, "Stored news articles (LIVE)", 0)
                      ELSE IF inp.db_fail = 2
                      THEN Raised(<<DeleteMany>>, "News update failed")
                      ELSE Returned(<<DeleteMany,
                                      InsertMany([i \in 1..Len(first) |->
                                                    NewsItem(first[i], inp.uuids + i)])>>,
                                    "Stored news articles (LIVE)", Len(first))
        ELSE Returned(<<>>, "ReliefWeb returned no data", 0)

\* -------------------------------------------------------- keyed routines
\* round(n / d) for n >= 0 where n / d is a double without rounding error (a
\* coordinate doubled, a value formatted with .0f) or no half (the methane
\* estimate): halves go to the even neighbour
RoundDiv(n, d) ==
    LET q == n \div d
        r == n % d
    IN  IF 2 * r < d THEN q
        ELSE IF 2 * r > d THEN q + 1
        ELSE IF q % 2 = 0 THEN q ELSE q + 1

\* A number read from Earth Engine is a double.  A reading is its value in
\* the unit of the routine (for ndvi 1/1000 of a MODIS unit, for the others
\* the unit the routine stores; 0 for a missing band, "or 0"), rounded to a
\* whole number of units, and side: 1, 0 or -1 as the number read lies
\* above, on or below that value (by more than the rounding error of a
\* double).  ok is FALSE when reduceRegion().getInfo() raises, which the
\* loop catches.
Reading(value) == [ok |-> TRUE, value |-> value, side |-> 0]
NoReading == [ok |-> FALSE, value |-> 0, side |-> 0]

\* "reading > bound", the number read against a bound in the same unit
Exceeds(reading, bound) ==
    reading.value > bound \/ (reading.value = bound /\ reading.side > 0)

\* round(ndvi_value, 3) in 1/1000, ndvi_value a double of n / 10^7, or next
\* to it on the given side.  Python rounds the double, which is not the
\* decimal: where the decimal is a half (a reading of whole MODIS units that
\* ends in 5, times 0.0001) the double lies above it and goes up, except for
\* the readings listed in below (as n \div 10^4), where it lies below
round_3(n, side) ==
    LET q == n \div 10000
        r == n % 10000
        below == (107..108) \cup {124} \cup (149..155) \cup (182..186) \cup (215..218)
                 \cup (248..249) \cup (297..312) \cup (363..374) \cup (429..436)
                 \cup (495..499) \cup (529..562) \cup (661..686) \cup (793..812)
                 \cup (925..936)
    IN  IF r < 5000 THEN q
        ELSE IF r > 5000 THEN q + 1
        ELSE IF side > 0 THEN q + 1
        ELSE IF side < 0 \/ q \in below THEN q ELSE q + 1

\* the reading is stored as it comes: scaled, but neither clamped nor
\* replaced by the fallback (a reading not above 1 is whole thousandths and
\* its own rounding)
NdviDoc_unclamped(name, reading) ==
    [name |-> name,
     ndvi |-> IF Exceeds(reading, 1000) THEN round_3(reading.value, reading.side)
              ELSE reading.value,
     raw_value |-> [value |-> reading.value, side |-> reading.side],
     data_status |-> LIVE]

\* the ndvi document of a reading (in 1/1000 of a MODIS unit): scaled by
\* 0.0001 when above 1, clamped to [0, 1], replaced by the fallback below
\* 0.1; ndvi_value is kept in 1/10^7.  A scaled reading is above 0 and is
\* clamped from above, an unscaled one is 1 at most and is clamped from below,
\* which is done before it is brought to the unit to stay within 32 bits
NdviDoc(name, reading) ==
    LET clamped == IF Exceeds(reading, 1000) THEN Min(10000000, reading.value)
                   ELSE 10000 * Max(0, reading.value)
        side == IF clamped \in {0, 10000000} THEN 0 ELSE reading.side
        raw == [value |-> reading.value, side |-> reading.side]
    IN  IF clamped < 1000000 \/ (clamped = 1000000 /\ side < 0)
        THEN [name |-> name, ndvi |-> fallback_ndvi(name), raw_value |-> raw,
              data_status |-> ESTIMATED]
        ELSE [name |-> name, ndvi |-> round_3(clamped, side), raw_value |-> raw,
              data_status |-> LIVE]

FloodRisk(occurrence) ==
    IF Exceeds(occurrence, 500) THEN "High"
    ELSE IF Exceeds(occurrence, 250) THEN "Medium" ELSE "Low"

\* the "$set" document a GEE routine writes for one region and its reading:
\* the tests are made on the number read, the rounded value is stored
region_doc(source, name, reading) ==
    CASE source = "ndvi" -> NdviDoc(name, reading)
      [] source = "soil_moisture" ->
            [name |-> name, soil_moisture |-> reading.value,
             data_status |-> IF Exceeds(reading, 0) THEN LIVE ELSE ESTIMATED]
      [] source = "chirps_rainfall" ->
            [name |-> name, rainfall_30d_mm |-> reading.value, data_status |-> LIVE]
      [] source = "nighttime_lights" ->
            [name |-> name, radiance |-> reading.value,
             data_status |-> IF Exceeds(reading, 0) THEN LIVE ELSE ESTIMATED]
      [] source = "flood" ->
            [name |-> name, water_occurrence_pct |-> reading.value,
             flood_risk |-> FloodRisk(reading), data_status |-> LIVE]
      [] source = "methane" ->
            [name |-> name, ch4_ppb |-> reading.value,
             data_status |-> IF Exceeds(reading, 0) THEN LIVE ELSE ESTIMATED]

\* the regions of a GEE routine whose reading is there: the upsert of each
\* is awaited; the region whose getInfo() raises is passed over without an
\* await
gee_awaited(regions, readings) == {i \in 1..Len(regions) : readings[i].ok}

\* the per-region loop of a GEE routine from region i on, n upserts awaited
\* before it: the upsert of a region takes effect unless it is the
\* db_fail-th one awaited, which raises inside the try of the region; the
\* loop goes on with the next region either way
RECURSIVE gee_loop(_, _, _, _, _, _)
gee_loop(source, regions, readings, db_fail, i, n) ==
    IF i > Len(regions) THEN <<>>
    ELSE IF ~readings[i].ok THEN gee_loop(source, regions, readings, db_fail, i + 1, n)
    ELSE IF n + 1 = db_fail THEN gee_loop(source, regions, readings, db_fail, i + 1, n + 1)
    ELSE <<UpdateOne("name", regions[i], region_doc(source, regions[i], readings[i]))>>
         \o gee_loop(source, regions, readings, db_fail, i + 1, n + 1)

\* a GEE routine once its collection is there: the loop over its regions
gee_routine(source, regions, inp, text) ==
    Looped(gee_loop(source, regions, inp.resp.body, inp.db_fail, 1, 0),
           Cardinality(gee_awaited(regions, inp.resp.body)), text)

\* a loop of upserts outside any try: the db_fail-th one raises and the
\* exception leaves the routine
upsert_all(docs, db_fail) ==
    [i \in 1..(IF db_fail \in 1..Len(docs) THEN db_fail - 1 ELSE Len(docs)) |->
        UpdateOne("name", docs[i].name, docs[i])]

\* the per-location loop of _update_weather_data from location i on, n
\* upserts awaited before it: the request is awaited, the answer of a 200
\* is upserted, then asyncio.sleep(0.3) is awaited; the db_fail-th upsert
\* awaited raises inside the try of the location and the loop goes on
RECURSIVE weather_loop(_, _, _, _, _)
weather_loop(locations, answers, db_fail, i, n) ==
    IF i > Len(locations) THEN <<>>
    ELSE IF answers[i].status # 200 THEN weather_loop(locations, answers, db_fail, i + 1, n)
    ELSE IF n + 1 = db_fail THEN weather_loop(locations, answers, db_fail, i + 1, n + 1)
    ELSE <<UpdateOne("location", locations[i],
                     [name |-> locations[i], data |-> answers[i].body,
                      data_status |-> LIVE])>>
         \o weather_loop(locations, answers, db_fail, i + 1, n + 1)

\* _update_weather_data: resp is Failed when the client itself fails, before
\* any request, else Ok(the answers of the per-location calls)
_update_weather_data(inp) ==
    IF inp.resp.status = -1 THEN NoAwait(Raised(<<>>, "Weather update failed"))
    ELSE LET ops == weather_loop(Modelled(weather_locations), inp.resp.body, inp.db_fail, 1, 0)
         IN  Returned(ops, "Updated locations", Len(ops))

\* _update_ndvi_data: without Earth Engine the fallback table is upserted
\* outside the try; with it, resp is Failed when ee.ImageCollection or
\* size().getInfo() raises, before the loop
_update_ndvi_data(inp, gee) ==
    IF ~gee
    THEN LET names == Modelled(ndvi_regions)
             docs == [i \in 1..Len(names) |->
                        [name |-> names[i], ndvi |-> fallback_ndvi(names[i]),
                         data_status |-> HISTORICAL]]
             ops == upsert_all(docs, inp.db_fail)
         IN  IF Len(ops) < Len(docs) THEN Raised(ops, "database error")
             ELSE Returned(ops, "GEE not initialized - used fallback data", 0)
    ELSE IF inp.resp.status = -1 THEN NoAwait(Raised(<<>>, "NDVI update failed"))
    ELSE gee_routine("ndvi", Modelled(ndvi_regions), inp,
                     "Updated NDVI regions from GEE")

\* _update_soil_moisture_data
_update_soil_moisture_data(inp, gee) ==
    IF ~gee THEN NoAwait(Returned(<<>>, "GEE not initialized - skipping soil moisture", 0))
    ELSE IF inp.resp.status = -1 THEN NoAwait(Returned(<<>>, "SMAP data unavailable", 0))
    ELSE gee_routine("soil_moisture", Modelled(soil_regions), inp,
                     "Updated soil moisture regions")

\* _update_chirps_rainfall_data
_update_chirps_rainfall_data(inp, gee) ==
    IF ~gee THEN NoAwait(Returned(<<>>, "GEE not initialized - skipping CHIRPS", 0))
    ELSE IF inp.resp.status = -1 THEN NoAwait(Raised(<<>>, "CHIRPS update failed"))
    ELSE gee_routine("chirps_rainfall", Modelled(chirps_regions), inp,
                     "Updated CHIRPS rainfall regions")

\* _update_nighttime_lights_data
_update_nighttime_lights_data(inp, gee) ==
    IF ~gee THEN NoAwait(Returned(<<>>, "GEE not initialized - skipping nighttime lights", 0))
    ELSE IF inp.resp.status = -1 THEN NoAwait(Raised(<<>>, "Nighttime lights update failed"))
    ELSE gee_routine("nighttime_lights", Modelled(nightlights_locations), inp,
                     "Updated nighttime light locations")

\* _update_flood_data
_update_flood_data(inp, gee) ==
    IF ~gee THEN NoAwait(Returned(<<>>, "GEE not initialized - skipping flood detection", 0))
    ELSE IF inp.resp.status = -1 THEN NoAwait(Raised(<<>>, "Flood update failed"))
    ELSE gee_routine("flood", Modelled(flood_regions), inp,
                     "Updated flood risk regions")

\* the estimate of _update_methane_data without GEE, ch4_ppb in 1/10
MethaneEstimate(name) ==
    LET density == cattle_density(name)
        factor == CASE density = "very_high" -> 48 [] density = "high" -> 44
                    [] density = "medium" -> 40 [] OTHER -> 36
        cattle_count == CASE density = "very_high" -> 15000 [] density = "high" -> 10000
                          [] density = "medium" -> 6000 [] OTHER -> 3000
        annual_ch4 == (cattle_count * factor) \div 1000
    IN  [name |-> name, cattle_density |-> density,
         ch4_ppb |-> 18500 + RoundDiv(annual_ch4 * 5, 365),
         estimated_annual_tonnes |-> annual_ch4,
         data_status |-> ESTIMATED]

\* _update_methane_data
_update_methane_data(inp, gee) ==
    IF ~gee
    THEN LET names == Modelled(methane_regions)
             docs == [i \in 1..Len(names) |-> MethaneEstimate(names[i])]
             ops == upsert_all(docs, inp.db_fail)
         IN  IF Len(ops) < Len(docs) THEN Raised(ops, "database error")
             ELSE Returned(ops, "Stored estimated methane data (GEE unavailable)", 0)
    ELSE IF inp.resp.status = -1
    THEN NoAwait(Returned(<<>>, "Sentinel-5P data unavailable", 0))
    ELSE gee_routine("methane", Modelled(methane_regions), inp,
                     "Updated methane regions from GEE")

\* the coroutine gather runs at position i
Coroutine(i, inp, gee) ==
    CASE i = 1 -> _update_weather_data(inp)
      [] i = 2 -> _update_ndvi_data(inp, gee)
      [] i = 3 -> _update_soil_moisture_data(inp, gee)
      [] i = 4 -> _update_chirps_rainfall_data(inp, gee)
      [] i = 5 -> _update_nighttime_lights_data(inp, gee)
      [] i = 6 -> _update_conflict_data(inp)
      [] i = 7 -> _update_fire_data(inp)
      [] i = 8 -> _update_flood_data(inp, gee)
      [] i = 9 -> _update_disaster_alerts(inp)
      [] i = 10 -> _update_news_data(inp)
      [] i = 11 -> _update_methane_data(inp, gee)

\* routine i awaited to its end on the collection coll: every write has
\* taken effect
Routine(i, coll, inp, gee) ==
    LET r == Coroutine(i, inp, gee)
    IN  [coll |-> ApplyAll(r.ops, coll, 1), raised |-> r.raised, message |-> r.message]

\* the routine ends before its first await: nothing runs between its start
\* and its end
Synchronous(i, gee, inp) == ~Coroutine(i, inp, gee).awaits

\* ------------------------------------------------- the environment's answers
\* Every routine has a default answer (the upstream source delivers its usual
\* batch, the database accepts every write); any other answer counts against
\* MaxFaults, one per call or write that deviates.
Header == <<BadCell, BadCell>>         \* "latitude,longitude,..."
Event(n) == [event_id |-> n]
Report(n) == [id |-> n, fields |-> [title |-> "report"]]
NotADict == [not_a_dict |-> TRUE]

\* a reading next to value: above it (side 1) or below it (side -1)
Beside(value, side) == [Reading(value) EXCEPT !.side = side]

\* ndvi readings are in 1/1000 of a MODIS unit
DefaultReading(i) ==
    CASE i = 2 -> 4100000 [] i = 3 -> 2500 [] i = 4 -> 523 [] i = 5 -> 140
      [] i = 8 -> 310 [] OTHER -> 18700

\* the ndvi readings next to a branch of the routine: negative (-3000 MODIS
\* units), ratios up to 1, around the scale test at 1, around the fallback at 0.1 (999.4,
\* 999.6, 1000 and its two neighbours, 1000.4), halves of the rounding
\* (1075, 4105 and its neighbours), a fraction (4104.6), above 10000
NdviReadings ==
    {Reading(-3000000), Reading(50), Reading(500), Reading(1000), Beside(1000, 1),
     Reading(1400), Reading(999000), Reading(999400), Reading(999600),
     Beside(1000000, -1), Reading(1000000), Beside(1000000, 1), Reading(1000400),
     Reading(1075000), Reading(4104600), Beside(4105000, -1), Reading(4105000),
     Beside(4105000, 1), Beside(10000000, 1), Reading(12000000)}

RegionsOf(i) ==
    CASE i = 1 -> Modelled(weather_locations)
      [] i = 2 -> Modelled(ndvi_regions)
      [] i = 3 -> Modelled(soil_regions)
      [] i = 4 -> Modelled(chirps_regions)
      [] i = 5 -> Modelled(nightlights_locations)
      [] i = 8 -> Modelled(flood_regions)
      [] i = 11 -> Modelled(methane_regions)
      [] OTHER -> <<>>

DefaultInput(i, gee) ==
    CASE i = 1 -> Input(Ok([k \in 1..Len(RegionsOf(1)) |-> Ok([temperature |-> 31])]), 0)
      [] i = 6 -> Input(Ok([data |-> <<Event(1), Event(2)>>]), 0)
      [] i = 7 -> Input(Ok(<<Header, <<Num(832), Num(3318)>>>>), 0)
      [] i = 9 -> Input(Ok([features |-> <<Event(7)>>]), 0)
      [] i = 10 -> Input(Ok([data |-> <<Report(1)>>]), 0)
      [] OTHER -> IF gee
                  THEN Input(Ok([k \in 1..Len(RegionsOf(i)) |-> Reading(DefaultReading(i))]), 0)
                  ELSE Input(Ok(<<>>), 0)

\* the sequences that differ from def only by elements of alts
SeqVariants(def, alts) ==
    {s \in [1..Len(def) -> {def[k] : k \in 1..Len(def)} \cup alts] :
        \A k \in 1..Len(def) : s[k] = def[k] \/ s[k] \in alts}

Inputs(i, gee) ==
    LET def == DefaultInput(i, gee)
    IN  CASE i = 1 ->
               {Input(Failed, 0), Input(def.resp, 1)} \cup
               {Input(Ok(b), 0) : b \in SeqVariants(def.resp.body, {Status(503), Failed})}
          [] i = 6 ->
               {def, Input(Failed, 0), Input(Status(503), 0), Input(Ok(NoDoc), 0),
                Input(Ok([data |-> <<Event(3)>>]), 0), Input(Ok([data |-> <<NotADict>>]), 0),
                Input(def.resp, 1), Input(def.resp, 2)}
          [] i = 7 ->
               {def, Input(Failed, 0), Input(Status(503), 0), Input(Ok(<<Header>>), 0),
                Input(Ok(<<Header, <<BadCell, Num(3318)>>, <<EmptyCell, Num(3000)>>>>), 0),
                Input(Ok(<<Header, <<Num(700), Num(3000)>>, <<Num(0), Num(3000)>>>>), 0),
                Input(def.resp, 1), Input(def.resp, 2)}
          [] i = 9 ->
               {def, Input(Failed, 0), Input(Status(503), 0), Input(Ok(NoDoc), 0),
                Input(Ok(NotADict), 0), Input(Ok([features |-> <<Event(8), Event(9)>>]), 0),
                Input(def.resp, 2)}
          [] i = 10 ->
               {def, Input(Failed, 0), Input(Status(503), 0), Input(Ok(NoDoc), 0),
                Input(Ok([data |-> <<Report(2), Report(3)>>]), 0),
                Input(Ok([data |-> <<[fields |-> [title |-> "report"]],
                                     [fields |-> [title |-> "report"]]>>]), 0),
                Input(Ok([data |-> <<NotADict>>]), 0), Input(def.resp, 2)}
          [] OTHER ->
               IF gee
               THEN {Input(Failed, 0), Input(def.resp, 1),
                     Input(Ok([def.resp.body EXCEPT ![1] = NoReading]), 1)} \cup
                    {Input(Ok(b), 0) : b \in SeqVariants(def.resp.body, {NoReading, Reading(0)})}
                    \cup
                    {Input(Ok([def.resp.body EXCEPT ![1] = r]), 0) :
                        r \in CASE i = 2 -> NdviReadings
                               [] i \in {3, 5, 11} -> {Beside(0, 1)}
                               [] i = 8 -> {Reading(500), Beside(500, 1), Beside(250, 1)}
                               [] OTHER -> {}}
                    \cup
                    (IF i = 2
                     THEN {Input(Ok([k \in 1..Len(def.resp.body) |->
                                       IF k = 1 THEN Reading(12000000)
                                       ELSE Reading(-3000000)]), 0)}
                     ELSE {})
               ELSE IF i \in {2, 11}
               THEN {Input(def.resp, k) : k \in 0..Len(RegionsOf(i))}
               ELSE {def}

\* what the environment answers inside a refresh cycle when the call (for
\* the routines without an upstream call, the first write) fails
Failing(i, gee) ==
    IF ~gee /\ i \in {2, 11} THEN Input(DefaultInput(i, gee).resp, 1) ELSE Input(Failed, 0)

\* what it answers inside a cycle when nothing deviates: the weather and
\* the conflict source deliver their batch; FIRMS, GDACS and ReliefWeb answer
\* with a status that is not 200; of Earth Engine only the MODIS collection
\* is available.  The routine harness gives every routine every answer.
Usual(i, gee) ==
    IF i \in {7, 9, 10} THEN Input(Status(503), 0)
    ELSE IF gee /\ i \in {3, 4, 5, 8, 11} THEN Failing(i, gee)
    ELSE DefaultInput(i, gee)

\* the answers a routine can get inside a cycle: the usual one, and for the
\* weather routine (whose client fails before any await), the conflict
\* routine (whose request fails) and the NDVI routine with Earth Engine
\* (whose collection fails before any await) the failing one
GatherInputs(i, gee) ==
    IF i \in {1, 6} \/ (gee /\ i = 2) THEN {Usual(i, gee), Failing(i, gee)}
    ELSE {Usual(i, gee)}

\* how many answers of inp deviate inside a cycle
Cost(i, gee, inp) == IF inp = Usual(i, gee) THEN 0 ELSE 1

\* ------------------------------------------------------------ the program
VARIABLES
    GEE_INITIALIZED,  \* the module global set by initialize_earth_engine
    is_updating,      \* data_scheduler.is_updating
    last_update,      \* data_scheduler.last_update, None or a clock value
    update_results,   \* data_scheduler.update_results, a dict keyed by source
    db,               \* the collections of the document store
    deleted,          \* per collection, the number of documents deleted from it so far
    now,              \* the last reading of datetime.now(timezone.utc), in minutes:
                      \* the wall clock, which can stand still or be set back
    pc,               \* where each run_batch_update task stands
    results,          \* per task, the slots of its asyncio.gather
    faults,           \* answers of the environment that were not the usual one
    arrived_busy,     \* history: per task, is_updating when it was scheduled
    dropped,          \* history: the tasks whose call returned at the check
    last_cycle,       \* history: the task that recorded update_results last
    call,             \* routine harness: the last routine call and what it found
    calls,            \* routine and read harness: the number of calls made
    ret,              \* function harness: the last function called and what it returned
    req               \* read harness: the request being served and what it has read

schedVars == <<is_updating, last_update, update_results, now, pc, results,
               arrived_busy, dropped, last_cycle>>
harnessVars == <<call, calls, ret, req>>
vars == <<GEE_INITIALIZED, db, deleted, faults, schedVars, harnessVars>>

\* task 0 is the one startup_event creates, the others come from POST requests
Tasks == 0..MaxTriggers

CollectionNames == {collections[i] : i \in Routines} \cup {"system_meta", "ai_history"}

\* a slot of the gather: no task, a task created that has not begun, a
\* routine pending at an await (inp is the answer it is given, k the number
\* of its writes that have taken effect), or finished with what the routine
\* returned or raised
NoSlot == [st |-> "none", k |-> 0, inp |-> Input(Failed, 0), message |-> <<"", 0>>]
Pending == [NoSlot EXCEPT !.st = "pending"]
Finished(r, inp) ==
    [st |-> IF r.raised THEN "raised" ELSE "returned", k |-> Len(r.ops), inp |-> inp,
     message |-> r.message]

NoCall == [i |-> 0, inp |-> Input(Failed, 0), before |-> <<>>]

\* no function has been called yet
NoRet == [f |-> "none"]

\* a cursor that has not been opened: list is what to_list has gathered, at
\* the number of documents of the collection the cursor is past
NoCursor == [alive |-> FALSE, at |-> 0, list |-> <<>>]

\* no request is being served; of a request, f is the handler (i the
\* routine whose cache it reads), got what its awaited reads have returned,
\* seen the collection each of them was answered from, as it was at the last
\* reply, cursor the read under way, replies the replies of the store so
\* far, clock the reading of datetime.now it has taken, kept what else the
\* handler holds
NoReq == [f |-> "none", i |-> 0, got |-> <<>>, seen |-> <<>>, cursor |-> NoCursor,
          replies |-> 0, clock |-> None, kept |-> NoDoc]

Init ==
    /\ GEE_INITIALIZED = FALSE
    /\ is_updating = FALSE
    /\ last_update = None
    /\ update_results = NoDoc
    /\ db = [c \in CollectionNames |-> <<>>]
    /\ deleted = [c \in CollectionNames |-> 0]
    /\ now = 0
    /\ pc = [t \in Tasks |-> "unborn"]
    /\ results = [t \in Tasks |-> [i \in Routines |-> NoSlot]]
    /\ faults = 0
    /\ arrived_busy = [t \in Tasks |-> FALSE]
    /\ dropped = {}
    /\ last_cycle = None
    /\ call = NoCall
    /\ calls = 0
    /\ ret = NoRet
    /\ req = NoReq

\* the event loop is running the first steps of the tasks of a gather (the
\* first task has begun, the last has not): they were queued one after the
\* other, so no other callback runs between them
Starting ==
    \E t \in Tasks :
        results[t][1].st \notin {"none", "created"} /\ results[t][Len(sources)].st = "created"

\* startup_event: initialize_earth_engine succeeds or not, then the first
\* refresh is created as a task
startup_event ==
    /\ pc[0] = "unborn"
    /\ GEE_INITIALIZED' \in BOOLEAN
    /\ pc' = [pc EXCEPT ![0] = "scheduled"]
    /\ arrived_busy' = [arrived_busy EXCEPT ![0] = is_updating]
    /\ UNCHANGED <<is_updating, last_update, update_results, db, deleted, now, results, faults,
                   dropped, last_cycle, harnessVars>>

\* POST /api/trigger-update: the refresh is added as a background task and the
\* handler returns
trigger_batch_update(t) ==
    /\ ~Starting
    /\ t > 0
    /\ pc[0] # "unborn"
    /\ pc[t] = "unborn"
    /\ \A u \in 1..(t - 1) : pc[u] # "unborn"
    /\ pc' = [pc EXCEPT ![t] = "scheduled"]
    /\ arrived_busy' = [arrived_busy EXCEPT ![t] = is_updating]
    /\ UNCHANGED <<GEE_INITIALIZED, is_updating, last_update, update_results, db, deleted, now,
                   results, faults, dropped, last_cycle, harnessVars>>

\* a should_update that is true from ten minutes on
should_update_inclusive(last, clock) ==
    IF last = None THEN TRUE ELSE clock - last >= update_interval

\* should_update: last is None or the clock value of the last refresh, clock
\* is what datetime.now(timezone.utc) reads in the call
should_update(last, clock) ==
    IF last = None THEN TRUE ELSE clock - last > update_interval

\* the call goes on only when the flag is clear and a refresh is due
can_start_when_due(flag) == ~flag /\ should_update(last_update, now)

\* the call goes on whatever the flag is
can_start_always(flag) == TRUE

\* "if self.is_updating: return": whether the call goes on
can_start(flag) == ~flag

\* the call is kept for later instead of returning
after_skip_queued(t) == "scheduled"

\* where a call that found the flag set ends
after_skip(t) == "done"

\* the call that finds the flag set stamps last_update before it returns
run_batch_update_skip_stamping(t) ==
    /\ ~Starting
    /\ pc[t] = "scheduled"
    /\ is_updating
    /\ pc' = [pc EXCEPT ![t] = after_skip(t)]
    /\ dropped' = dropped \cup {t}
    /\ last_update' = now
    /\ UNCHANGED <<GEE_INITIALIZED, is_updating, update_results, db, deleted, now,
                   results, faults, arrived_busy, last_cycle, harnessVars>>

\* run_batch_update, the flag found set: the call returns
run_batch_update_skip(t) ==
    /\ ~Starting
    /\ pc[t] = "scheduled"
    /\ is_updating
    /\ pc' = [pc EXCEPT ![t] = after_skip(t)]
    /\ dropped' = dropped \cup {t}
    /\ UNCHANGED <<GEE_INITIALIZED, is_updating, last_update, update_results, db, deleted, now,
                   results, faults, arrived_busy, last_cycle, harnessVars>>

\* the slots of a gather when the call has wrapped the eleven coroutines in
\* tasks: every task is created and queued, none has begun
gather_start(slots) == [i \in DOMAIN slots |-> [NoSlot EXCEPT !.st = "created"]]

\* run_batch_update, the flag found clear: the flag is set and the gather of
\* the eleven routines is awaited
run_batch_update_start(t) ==
    /\ pc[t] = "scheduled"
    /\ can_start(is_updating)
    /\ is_updating' = TRUE
    /\ pc' = [pc EXCEPT ![t] = "gather"]
    /\ results' = [results EXCEPT ![t] = gather_start(results[t])]
    /\ UNCHANGED <<GEE_INITIALIZED, last_update, update_results, db, deleted, now, faults,
                   arrived_busy, dropped, last_cycle, harnessVars>>

\* the first step of the task of routine i, taken in the order of the gather
\* call: the routine runs up to its first await, where it is given the
\* answer inp (the uuids of task t are its own); a routine that reaches no
\* await on that answer is finished
routine_start(t, i, inp) ==
    /\ results[t][i].st = "created"
    /\ \A j \in 1..(i - 1) : results[t][j].st # "created"
    /\ faults + Cost(i, GEE_INITIALIZED, inp) <= MaxFaults
    /\ LET given == [inp EXCEPT !.uuids = t * NewsLimit]
       IN  results' = [results EXCEPT ![t][i] =
                          IF Synchronous(i, GEE_INITIALIZED, given)
                          THEN Finished(Coroutine(i, given, GEE_INITIALIZED), given)
                          ELSE [Pending EXCEPT !.inp = given]]
    /\ faults' = faults + Cost(i, GEE_INITIALIZED, inp)
    /\ UNCHANGED <<GEE_INITIALIZED, is_updating, last_update, update_results, db, deleted, now, pc,
                   arrived_busy, dropped, last_cycle, harnessVars>>

\* the next awaited write of a pending routine takes effect in the store;
\* the routine is resumed in a later step
routine_write(t, i) ==
    /\ ~Starting
    /\ results[t][i].st = "pending"
    /\ \E r \in {Coroutine(i, results[t][i].inp, GEE_INITIALIZED)} :
           /\ results[t][i].k < Len(r.ops)
           /\ db' = [db EXCEPT ![collections[i]] = Apply(r.ops[results[t][i].k + 1], @)]
           /\ deleted' = [deleted EXCEPT ![collections[i]] =
                              @ + Removes(r.ops[results[t][i].k + 1], db[collections[i]])]
    /\ results' = [results EXCEPT ![t][i].k = @ + 1]
    /\ UNCHANGED <<GEE_INITIALIZED, is_updating, last_update, update_results, now, pc,
                   faults, arrived_busy, dropped, last_cycle, harnessVars>>

\* a pending routine whose writes have all taken effect is resumed for the
\* last time: it returns or raises
routine_end(t, i) ==
    /\ ~Starting
    /\ results[t][i].st = "pending"
    /\ \E r \in {Coroutine(i, results[t][i].inp, GEE_INITIALIZED)} :
           /\ results[t][i].k = Len(r.ops)
           /\ results' = [results EXCEPT ![t][i] = Finished(r, results[t][i].inp)]
    /\ UNCHANGED <<GEE_INITIALIZED, is_updating, last_update, update_results, db, deleted, now, pc,
                   faults, arrived_busy, dropped, last_cycle, harnessVars>>

\* asyncio.gather without return_exceptions: the first exception is raised
\* to the awaiter while the other routines go on
gather_first_exception(slots) ==
    IF \E i \in Routines : slots[i].st = "raised" THEN "raise"
    ELSE IF \A i \in Routines : slots[i].st = "returned" THEN "results"
    ELSE "wait"

\* asyncio.gather(..., return_exceptions=True): the list of results once
\* every routine has returned or raised
gather(slots) ==
    IF \A i \in Routines : slots[i].st \in {"returned", "raised"} THEN "results" ELSE "wait"

\* the entry is taken from the next routine's slot
update_results_entry_shifted(slots, i) ==
    LET j == (i % Len(sources)) + 1
    IN  IF slots[j].st = "raised"
        THEN [status |-> "error", message |-> slots[j].message]
        ELSE [status |-> "success", message |-> slots[j].message]

\* the entry of update_results for sources[i]
update_results_entry(slots, i) ==
    IF slots[i].st = "raised"
    THEN [status |-> "error", message |-> slots[i].message]
    ELSE [status |-> "success", message |-> slots[i].message]

\* the exception is raised again instead of being logged
batch_except_reraise(t) == "raised"

\* "except Exception as e: logger.error(...)": how the call ends after an
\* exception in the try block
batch_except(t) == "done"

\* the flag is cleared only at the end of the try block
batch_no_finally(failed) == failed

\* "finally: self.is_updating = False"
batch_finally(failed) == FALSE

\* the minutes between the reading of the wall clock before and the next
\* one: the first reading of a process comes after its start, a later one
\* can come in the same minute, or before when the clock was set back
Elapsed(last) == IF last = None THEN 1..MaxElapsed ELSE (0 - MaxSetBack)..MaxElapsed

\* run_batch_update after the gather: the results are recorded and the wall
\* clock is read, then the write of the metadata is awaited
run_batch_update_join(t, elapsed) ==
    /\ pc[t] = "gather"
    /\ gather(results[t]) # "wait"
    /\ IF gather(results[t]) = "results"
       THEN /\ now' = now + elapsed
            /\ update_results' =
                  [name \in {sources[i] : i \in Routines} |->
                      update_results_entry(results[t],
                                           CHOOSE i \in Routines : sources[i] = name)]
            /\ last_update' = now'
            /\ pc' = [pc EXCEPT ![t] = "meta"]
            /\ last_cycle' = t
            /\ UNCHANGED is_updating
       ELSE /\ elapsed = MaxElapsed
            /\ pc' = [pc EXCEPT ![t] = batch_except(t)]
            /\ is_updating' = batch_finally(TRUE)
            /\ UNCHANGED <<update_results, last_update, now, last_cycle>>
    /\ UNCHANGED <<GEE_INITIALIZED, db, deleted, results, faults, arrived_busy, dropped, harnessVars>>

\* a record whose next_update is the timestamp itself
batch_record_no_interval ==
    [timestamp |-> last_update, results |-> update_results, next_update |-> last_update]

\* the document "$set" on system_meta
batch_record ==
    [timestamp |-> last_update, results |-> update_results,
     next_update |-> last_update + update_interval]

\* run_batch_update, the awaited write of the metadata record: it takes
\* effect in the store, or it raises into the except clause and the finally
\* clause runs
run_batch_update_meta(t, ok) ==
    /\ pc[t] = "meta"
    /\ IF ok
       THEN /\ db' = [db EXCEPT !["system_meta"] =
                         update_one(@, "_id", "last_batch_update", batch_record)]
            /\ pc' = [pc EXCEPT ![t] = "written"]
            /\ UNCHANGED <<is_updating, deleted>>
       ELSE /\ pc' = [pc EXCEPT ![t] = batch_except(t)]
            /\ is_updating' = batch_finally(TRUE)
            /\ UNCHANGED <<db, deleted>>
    /\ UNCHANGED <<GEE_INITIALIZED, last_update, update_results, now, results, faults,
                   arrived_busy, dropped, last_cycle, harnessVars>>

\* run_batch_update resumed after the write of the record: the try block is
\* at its end and the finally clause clears the flag
run_batch_update_end(t) ==
    /\ pc[t] = "written"
    /\ pc' = [pc EXCEPT ![t] = "done"]
    /\ is_updating' = batch_finally(FALSE)
    /\ UNCHANGED <<GEE_INITIALIZED, last_update, update_results, db, deleted, now, results, faults,
                   arrived_busy, dropped, last_cycle, harnessVars>>

\* a step of a cycle under way: a routine begins, a write of it takes
\* effect, it ends, the gather is joined, the write of the metadata answers,
\* the call returns
CycleStep ==
    \/ \E t \in Tasks, i \in Routines :
          \E inp \in GatherInputs(i, GEE_INITIALIZED) : routine_start(t, i, inp)
    \/ \E t \in Tasks, i \in Routines : routine_write(t, i)
    \/ \E t \in Tasks, i \in Routines : routine_end(t, i)
    \/ \E t \in Tasks, elapsed \in Elapsed(last_update) : run_batch_update_join(t, elapsed)
    \/ \E t \in Tasks, ok \in BOOLEAN : run_batch_update_meta(t, ok)
    \/ \E t \in Tasks : run_batch_update_end(t)

Next ==
    \/ startup_event
    \/ \E t \in Tasks : trigger_batch_update(t)
    \/ \E t \in Tasks : run_batch_update_skip(t)
    \/ \E t \in Tasks : run_batch_update_start(t)
    \/ \E t \in Tasks, i \in Routines :
          \E inp \in GatherInputs(i, GEE_INITIALIZED) : routine_start(t, i, inp)
    \/ \E t \in Tasks, i \in Routines : routine_write(t, i)
    \/ \E t \in Tasks, i \in Routines : routine_end(t, i)
    \/ \E t \in Tasks, elapsed \in Elapsed(last_update) : run_batch_update_join(t, elapsed)
    \/ \E t \in Tasks, ok \in BOOLEAN : run_batch_update_meta(t, ok)
    \/ \E t \in Tasks : run_batch_update_end(t)

Spec == Init /\ [][Next]_vars

\* the process once startup_event has returned, with Earth Engine or
\* without: the first refresh created as a task, nothing fetched yet
LiveInit ==
    /\ GEE_INITIALIZED \in BOOLEAN
    /\ is_updating = FALSE
    /\ last_update = None
    /\ update_results = NoDoc
    /\ db = [c \in CollectionNames |-> <<>>]
    /\ deleted = [c \in CollectionNames |-> 0]
    /\ now = 0
    /\ pc = [t \in Tasks |-> IF t = 0 THEN "scheduled" ELSE "unborn"]
    /\ results = [t \in Tasks |-> [i \in Routines |-> NoSlot]]
    /\ faults = 0
    /\ arrived_busy = [t \in Tasks |-> FALSE]
    /\ dropped = {}
    /\ last_cycle = None
    /\ call = NoCall
    /\ calls = 0
    /\ ret = NoRet
    /\ req = NoReq

\* the startup refresh of a process no POST /api/trigger-update is sent to
LiveNext ==
    \/ \E t \in Tasks : run_batch_update_start(t)
    \/ CycleStep

\* with the fairness the event loop gives: every upstream call and every write
\* answers or fails, and a coroutine that can be resumed is resumed
LiveSpec == LiveInit /\ [][LiveNext]_vars /\ WF_vars(CycleStep)

\* ------------------------------------------------------ the routine harness
\* One routine at a time is called on the store, on any answer of the
\* environment, and runs as it does inside a gather: step by step.  call
\* keeps what the call was given and what it found in its collection.
FetchInit ==
    /\ GEE_INITIALIZED \in BOOLEAN
    /\ is_updating = FALSE
    /\ last_update = None
    /\ update_results = NoDoc
    /\ db = [c \in CollectionNames |-> <<>>]
    /\ deleted = [c \in CollectionNames |-> 0]
    /\ now = 0
    /\ pc = [t \in Tasks |-> "unborn"]
    /\ results = [t \in Tasks |-> [i \in Routines |-> NoSlot]]
    /\ faults = 0
    /\ arrived_busy = [t \in Tasks |-> FALSE]
    /\ dropped = {}
    /\ last_cycle = None
    /\ call = NoCall
    /\ calls = 0
    /\ ret = NoRet
    /\ req = NoReq

\* no routine of the harness is at an await
Idle == \A j \in Routines : results[0][j].st # "pending"

\* a routine is called and runs up to its first await, where it is given
\* the answer inp, or to its end when it reaches none; no uuid is drawn
\* twice: the call draws the ones after those of the calls before it.  The
\* harness keeps the slot of this call only
call_routine(i, inp) ==
    /\ calls < MaxCalls
    /\ Idle
    /\ LET given == [inp EXCEPT !.uuids = calls * NewsLimit]
       IN  /\ results' = [results EXCEPT ![0] =
                             [j \in Routines |->
                                 IF j # i THEN NoSlot
                                 ELSE IF Synchronous(i, GEE_INITIALIZED, given)
                                 THEN Finished(Coroutine(i, given, GEE_INITIALIZED), given)
                                 ELSE [Pending EXCEPT !.inp = given]]]
           /\ call' = [i |-> i, inp |-> given, before |-> db[collections[i]]]
    /\ calls' = calls + 1
    /\ UNCHANGED <<GEE_INITIALIZED, db, deleted, faults, is_updating, last_update,
                   update_results, now, pc, arrived_busy, dropped, last_cycle, ret, req>>

\* the process is started again over the store it left: GEE_INITIALIZED is
\* False at import and initialize_earth_engine sets it when it finds the
\* credentials file and ee.Initialize succeeds
initialize_earth_engine(found) ==
    /\ calls < MaxCalls
    /\ Idle
    /\ GEE_INITIALIZED' = found
    /\ call' = NoCall
    /\ results' = [results EXCEPT ![0] = [j \in Routines |-> NoSlot]]
    /\ UNCHANGED <<db, deleted, faults, is_updating, last_update, update_results, now, pc,
                   arrived_busy, dropped, last_cycle, calls, ret, req>>

\* a routine is called; each of its awaited writes takes effect in a step
\* of its own; it is resumed for the last time and returns or raises
FetchNext ==
    \/ \E i \in Routines : \E inp \in Inputs(i, GEE_INITIALIZED) : call_routine(i, inp)
    \/ \E i \in Routines : routine_write(0, i)
    \/ \E i \in Routines : routine_end(0, i)
    \/ \E found \in BOOLEAN : initialize_earth_engine(found)

FetchSpec == FetchInit /\ [][FetchNext]_vars

\* ------------------------------------------------------- the awaited reads
\* A handler awaits its reads one after the other; the store answers each
\* when it gets to it, and writes of a refresh can land before, between and
\* after.  find_one is answered in one reply.  cursor.to_list(n) gathers the
\* replies of the store until it has n documents or the cursor is exhausted:
\* the first reply of find() holds the first FirstBatch documents, the
\* next one those behind them (a reply is bounded by its size only).
FirstBatch == 101

\* the n of to_list(n) in the get_cached_* function of a collection;
\* get_cached_conflicts gives its find() the same limit
to_list_length(c) ==
    CASE c = "acled_events" -> 500
      [] c = "fire_cache" -> 1000
      [] c = "news_cache" -> 50
      [] OTHER -> 100

\* the cursor after the first reply, over the collection as it is then; it
\* is alive while to_list wants more and the reply was full
first_reply(coll, removed, n) ==
    LET batch == SubSeq(coll, 1, Min(FirstBatch, Len(coll)))
        list == SubSeq(batch, 1, Min(n, Len(batch)))
    IN  [alive |-> Len(batch) = FirstBatch /\ Len(list) < n,
         at |-> removed + Len(batch), list |-> list]

\* the cursor after the next reply, over the collection as it is then: the
\* documents behind the place the cursor is at, those given to the
\* collection since the first reply included
next_reply(cursor, coll, removed, n) ==
    LET rest == SubSeq(coll, Max(cursor.at - removed, 0) + 1, Len(coll))
    IN  [alive |-> FALSE, at |-> removed + Len(coll),
         list |-> cursor.list \o SubSeq(rest, 1, Min(n - Len(cursor.list), Len(rest)))]

\* the collections a handler awaits a read of, in the order of its awaits
\* (generate_evidence_based_herds and process_conflicts_to_zones end with
\* get_last_update_info, and so do the two GET handlers that call them)
Reads(r) ==
    CASE r.f = "process_conflicts_to_zones" -> <<"acled_events", "system_meta">>
      [] r.f = "get_conflict_zones" -> <<"acled_events", "system_meta", "system_meta">>
      [] r.f = "get_herds" ->
            <<"ndvi_cache", "fire_cache", "soil_moisture_cache", "chirps_cache",
              "system_meta", "system_meta">>
      [] r.f = "ai_analyze" ->
            <<"ndvi_cache", "fire_cache", "soil_moisture_cache", "chirps_cache",
              "system_meta", "ndvi_cache", "chirps_cache", "acled_events", "system_meta",
              "fire_cache">>
      [] r.f = "get_cached" -> <<collections[r.i]>>

\* the reads of a handler after which datetime.now is read: the default of
\* last_update.get("timestamp", ...) in the two functions that stamp
StampedAfter(r) ==
    CASE r.f \in {"process_conflicts_to_zones", "get_conflict_zones"} -> {2}
      [] r.f = "get_herds" -> {5}
      [] r.f = "ai_analyze" -> {5, 9}
      [] OTHER -> {}

\* the request r after the next reply of the store to the read it awaits;
\* when the read is complete the handler is resumed: it keeps what the read
\* returned (of system_meta the collection, in which it looks for the record)
\* and goes on to its next await
await_read(r, store, removed, clock) ==
    LET c == Reads(r)[Len(r.got) + 1]
        cursor == IF c = "system_meta" THEN [NoCursor EXCEPT !.list = store[c]]
                  ELSE IF r.cursor.alive
                  THEN next_reply(r.cursor, store[c], removed[c], to_list_length(c))
                  ELSE first_reply(store[c], removed[c], to_list_length(c))
    IN  IF cursor.alive THEN [r EXCEPT !.cursor = cursor, !.replies = @ + 1]
        ELSE [r EXCEPT !.got = Append(@, cursor.list), !.seen = Append(@, store[c]),
                       !.cursor = NoCursor, !.replies = @ + 1,
                       !.clock = IF Len(r.got) + 1 \in StampedAfter(r) THEN clock ELSE @]

\* ----------------------------------------------------- the function harness
\* event.get(name, default)
get(event, name, default) == IF name \in DOMAIN event THEN event[name] ELSE default

\* get_cached_conflicts, find({}).limit(500) and to_list(500), over a
\* collection no write lands in meanwhile
get_cached_conflicts(coll) == SubSeq(coll, 1, Min(500, Len(coll)))

\* get_last_update_info: the record last_batch_update, or the empty dict
get_last_update_info(meta) == find_one(meta, "_id", "last_batch_update")

\* last_update.get("timestamp", datetime.now(timezone.utc).isoformat())
last_updated_str(meta, clock) == get(get_last_update_info(meta), "timestamp", clock)

\* the zones process_conflicts_to_zones always returns; of each zone the id,
\* the place (lat and lng in 1/100 degree, radius in metres), the level, the
\* score, the counts, the tag and the stamp are kept
historical_zones(stamp) ==
    <<[id |-> "CZ1", lat |-> 685, lng |-> 3305, radius |-> 45000,
       risk_level |-> "Critical", risk_score |-> 92, recent_incidents |-> 23,
       total_fatalities |-> 156, data_status |-> HISTORICAL, last_updated |-> stamp],
      [id |-> "CZ2", lat |-> 735, lng |-> 2885, radius |-> 35000,
       risk_level |-> "High", risk_score |-> 78, recent_incidents |-> 12,
       total_fatalities |-> 45, data_status |-> HISTORICAL, last_updated |-> stamp],
      [id |-> "CZ3", lat |-> 845, lng |-> 3275, radius |-> 30000,
       risk_level |-> "High", risk_score |-> 75, recent_incidents |-> 8,
       total_fatalities |-> 28, data_status |-> HISTORICAL, last_updated |-> stamp],
      [id |-> "CZ4", lat |-> 935, lng |-> 3085, radius |-> 40000,
       risk_level |-> "Medium", risk_score |-> 58, recent_incidents |-> 5,
       total_fatalities |-> 18, data_status |-> HISTORICAL, last_updated |-> stamp],
      [id |-> "CZ5", lat |-> 955, lng |-> 3155, radius |-> 32000,
       risk_level |-> "High", risk_score |-> 72, recent_incidents |-> 15,
       total_fatalities |-> 52, data_status |-> HISTORICAL, last_updated |-> stamp]>>

\* "if lat and lng": latitude and longitude are kept in 1/10 degree
\* a value of an ACLED field that is a text float() and int() reject; None
\* stands for the JSON null
NonNumeric == None - 1

\* float(...) of both coordinates succeeds (an exception skips the event)
\* and "if lat and lng"
located(event) ==
    /\ get(event, "latitude", 0) \notin {0, None, NonNumeric}
    /\ get(event, "longitude", 0) \notin {0, None, NonNumeric}

\* (round(lat * 2) / 2, round(lng * 2) / 2), in half degrees
grid_key(event) ==
    <<RoundDiv(2 * get(event, "latitude", 0), 10), RoundDiv(2 * get(event, "longitude", 0), 10)>>

\* the keys of location_groups, in the order the dict got them
RECURSIVE location_groups(_, _, _)
location_groups(events, i, keys) ==
    IF i > Len(events) THEN keys
    ELSE IF located(events[i]) /\ \A k \in 1..Len(keys) : keys[k] # grid_key(events[i])
    THEN location_groups(events, i + 1, Append(keys, grid_key(events[i])))
    ELSE location_groups(events, i + 1, keys)

\* location_groups[key]
group(events, key) == SelectSeq(events, LAMBDA e : located(e) /\ grid_key(e) = key)

\* sum(int(e.get("fatalities", 0)) for e in events)
RECURSIVE total_fatalities(_, _)
total_fatalities(events, i) ==
    IF i > Len(events) THEN 0
    ELSE get(events[i], "fatalities", 0) + total_fatalities(events, i + 1)

\* min(100, 20 + len(events) * 5 + total_fatalities * 2)
risk_score(events) == Min(100, 20 + Len(events) * 5 + total_fatalities(events, 1) * 2)

\* the thresholds are compared with > instead of >=
risk_level_exclusive(score) ==
    IF score > 80 THEN "Critical" ELSE IF score > 60 THEN "High"
    ELSE IF score > 40 THEN "Medium" ELSE "Low"

\* "Critical" if risk_score >= 80 else "High" if ... >= 60 else "Medium" if ... >= 40 else "Low"
risk_level(score) ==
    IF score >= 80 THEN "Critical" ELSE IF score >= 60 THEN "High"
    ELSE IF score >= 40 THEN "Medium" ELSE "Low"

\* the zone of a group of events
live_zone(key, events, stamp) ==
    [id |-> <<"LIVE", key[1], key[2]>>, lat |-> 50 * key[1], lng |-> 50 * key[2],
     radius |-> 35000, risk_level |-> risk_level(risk_score(events)),
     risk_score |-> risk_score(events), recent_incidents |-> Len(events),
     total_fatalities |-> total_fatalities(events, 1), data_status |-> LIVE,
     last_updated |-> stamp]

\* live_zones: one zone per group of three events or more
RECURSIVE live_zones(_, _, _, _)
live_zones(events, keys, i, stamp) ==
    IF i > Len(keys) THEN <<>>
    ELSE IF Len(group(events, keys[i])) >= 3
    THEN <<live_zone(keys[i], group(events, keys[i]), stamp)>>
            \o live_zones(events, keys, i + 1, stamp)
    ELSE live_zones(events, keys, i + 1, stamp)

\* the zone put into a list sorted by falling score, after the zones of
\* the same score (sorted is stable, with reverse=True too)
insert_by_score(zones, zone) ==
    LET ahead == Cardinality({k \in 1..Len(zones) : zones[k].risk_score >= zone.risk_score})
    IN  SubSeq(zones, 1, ahead) \o <<zone>> \o SubSeq(zones, ahead + 1, Len(zones))

\* sorted(zones, key=lambda x: x["risk_score"], reverse=True)
RECURSIVE sorted_by_score(_, _, _)
sorted_by_score(zones, i, done) ==
    IF i > Len(zones) THEN done
    ELSE sorted_by_score(zones, i + 1, insert_by_score(done, zones[i]))

\* an assessment that answers nothing while no event is cached
process_conflicts_to_zones_needs_data(coll, meta, clock) ==
    LET acled_data == get_cached_conflicts(coll)
        stamp == last_updated_str(meta, clock)
        live == live_zones(acled_data, location_groups(acled_data, 1, <<>>), 1, stamp)
        ranked == sorted_by_score(live \o historical_zones(stamp), 1, <<>>)
    IN  IF acled_data = <<>> THEN <<>>
        ELSE IF live # <<>> THEN SubSeq(ranked, 1, Min(12, Len(ranked)))
        ELSE historical_zones(stamp)

\* process_conflicts_to_zones on the collections acled_events and
\* system_meta, called when the clock reads clock
process_conflicts_to_zones(coll, meta, clock) ==
    LET acled_data == get_cached_conflicts(coll)
        stamp == last_updated_str(meta, clock)
        live == live_zones(acled_data, location_groups(acled_data, 1, <<>>), 1, stamp)
        ranked == sorted_by_score(live \o historical_zones(stamp), 1, <<>>)
    IN  IF acled_data # <<>> /\ live # <<>>
        THEN SubSeq(ranked, 1, Min(12, Len(ranked)))
        ELSE historical_zones(stamp)

\* what the zone of a group of three events or more raises, "" when it
\* is built: int(e.get("fatalities", 0)) raises TypeError on the first null
\* and ValueError on the first text that is no number, whichever event
\* comes first; then max(...) raises TypeError when it compares a null
\* event_date
live_zone_error(events) ==
    LET bad == {k \in 1..Len(events) : get(events[k], "fatalities", 0) \in {None, NonNumeric}}
    IN  IF bad # {}
        THEN LET first == CHOOSE k \in bad : \A j \in bad : k <= j
             IN  IF get(events[first], "fatalities", 0) = None THEN "TypeError"
                 ELSE "ValueError"
        ELSE IF \E k \in 1..Len(events) : get(events[k], "event_date", 0) = None
        THEN "TypeError" ELSE ""

\* the exception process_conflicts_to_zones ends with, "" when it returns:
\* that of the first group, in the order of the dict, whose zone raises;
\* nothing of the loop stands under a try
process_conflicts_to_zones_error(coll) ==
    LET acled_data == get_cached_conflicts(coll)
        keys == location_groups(acled_data, 1, <<>>)
        failing == {i \in 1..Len(keys) :
                       /\ Len(group(acled_data, keys[i])) >= 3
                       /\ live_zone_error(group(acled_data, keys[i])) # ""}
    IN  IF failing = {} THEN ""
        ELSE live_zone_error(group(acled_data, keys[CHOOSE i \in failing :
                                                          \A j \in failing : i <= j]))

\* process_conflicts_to_zones raises instead of returning
process_conflicts_to_zones_raises(coll) == process_conflicts_to_zones_error(coll) # ""

\* the conflict events the cache can hold: whatever ACLED sent, stored as
\* sent; two places of one grid cell and an event without coordinates, with
\* fatalities that are usual, zero, or negative
CachedEvents ==
    {[latitude |-> p[1], longitude |-> p[2], fatalities |-> f, data_status |-> LIVE] :
        p \in {<<68, 330>>, <<71, 332>>, <<0, 330>>}, f \in {-20, 0, 1, 10}}

\* the sequences over S of length n at most
RECURSIVE SeqsUpTo(_, _)
SeqsUpTo(S, n) ==
    IF n = 0 THEN {<<>>}
    ELSE LET shorter == SeqsUpTo(S, n - 1)
         IN  shorter \cup {Append(q, x) : q \in {r \in shorter : Len(r) = n - 1}, x \in S}

\* the scheduler with any last_update and clock, or the store with any
\* cached conflict events
CallInit ==
    /\ GEE_INITIALIZED = FALSE
    /\ is_updating = FALSE
    /\ update_results = NoDoc
    /\ pc = [t \in Tasks |-> "unborn"]
    /\ results = [t \in Tasks |-> [i \in Routines |-> NoSlot]]
    /\ faults = 0
    /\ arrived_busy = [t \in Tasks |-> FALSE]
    /\ dropped = {}
    /\ last_cycle = None
    /\ call = NoCall
    /\ calls = 0
    /\ ret = NoRet
    /\ req = NoReq
    /\ deleted = [c \in CollectionNames |-> 0]
    /\ \/ /\ last_update \in {None} \cup (0..MaxClock)
          /\ now \in 0..MaxClock
          /\ last_update <= now
          /\ db = [c \in CollectionNames |-> <<>>]
       \/ /\ last_update = None
          /\ now = 0
          /\ \E events \in SeqsUpTo(CachedEvents, MaxEvents) :
                db = [c \in CollectionNames |-> IF c = "acled_events" THEN events ELSE <<>>]

\* should_update is called, between two calls of the zone assessment
call_should_update ==
    /\ req = NoReq
    /\ ret' = [f |-> "should_update", value |-> should_update(last_update, now)]
    /\ UNCHANGED <<GEE_INITIALIZED, db, deleted, faults, schedVars, call, calls, req>>

\* a step of a call of process_conflicts_to_zones: the call begins, if none
\* is under way, and the read it awaits is answered; after the second read
\* it reads the clock, and returns or raises.  ret keeps what the call read
call_process_conflicts_to_zones ==
    /\ req.f \in {"none", "process_conflicts_to_zones"}
    /\ LET r == await_read([req EXCEPT !.f = "process_conflicts_to_zones"], db, deleted, now)
       IN  IF Len(r.got) < 2 THEN req' = r /\ UNCHANGED ret
           ELSE /\ req' = NoReq
                /\ ret' = IF process_conflicts_to_zones_raises(r.got[1])
                          THEN [f |-> "process_conflicts_to_zones", raised |-> TRUE,
                                read |-> r.got, seen |-> r.seen, clock |-> r.clock]
                          ELSE [f |-> "process_conflicts_to_zones", read |-> r.got,
                                seen |-> r.seen, clock |-> r.clock,
                                value |-> process_conflicts_to_zones(r.got[1], r.got[2],
                                                                     r.clock)]
    /\ UNCHANGED <<GEE_INITIALIZED, db, deleted, faults, schedVars, call, calls>>

CallNext == call_should_update \/ call_process_conflicts_to_zones

CallSpec == CallInit /\ [][CallNext]_vars

\* ------------------------------------------- the zones of any stored cache
\* events as ACLED can send them and the routine stores them: a coordinate,
\* the fatalities or the date of an event may be a number, null, a text that
\* is no number, or missing
OddEvents ==
    {[latitude |-> la, longitude |-> 330, fatalities |-> f, event_date |-> d,
      data_status |-> LIVE] : la \in {68, None, NonNumeric}, f \in {1, None, NonNumeric},
                              d \in {3, None}}
        \cup {[latitude |-> 68, longitude |-> 330, data_status |-> LIVE],
              [fatalities |-> 1, event_date |-> 3, data_status |-> LIVE]}

\* three events with j fatalities each in every one of the cells lo..hi
Crowded(lo, hi) ==
    [k \in 1..(3 * (hi - lo + 1)) |->
        [latitude |-> 40 + 10 * (lo + (k - 1) \div 3), longitude |-> 330,
         fatalities |-> lo + (k - 1) \div 3, event_date |-> 3, data_status |-> LIVE]]

ZoneCaches ==
    {events \in SeqsUpTo(OddEvents, 3) : Len(events) \in {0, 3}}
        \cup {Crowded(1, 7), Crowded(1, 8), Crowded(4, 11)}

ZoneInit ==
    /\ GEE_INITIALIZED = FALSE
    /\ is_updating = FALSE
    /\ last_update = None
    /\ update_results = NoDoc
    /\ now = 0
    /\ pc = [t \in Tasks |-> "unborn"]
    /\ results = [t \in Tasks |-> [i \in Routines |-> NoSlot]]
    /\ faults = 0
    /\ arrived_busy = [t \in Tasks |-> FALSE]
    /\ dropped = {}
    /\ last_cycle = None
    /\ call = NoCall
    /\ calls = 0
    /\ ret = NoRet
    /\ req = NoReq
    /\ deleted = [c \in CollectionNames |-> 0]
    /\ \E events \in ZoneCaches :
          db = [c \in CollectionNames |-> IF c = "acled_events" THEN events ELSE <<>>]

ZoneNext == call_process_conflicts_to_zones

ZoneSpec == ZoneInit /\ [][ZoneNext]_vars

\* ------------------------------------------------------ the read handlers
\* {r.get("name"): r.get(field, default) for r in data}: of two documents
\* of one name the later one counts
lookup(data, field, default) ==
    [name \in {data[k].name : k \in {j \in 1..Len(data) : "name" \in DOMAIN data[j]}} |->
        LET last == CHOOSE k \in 1..Len(data) :
                        /\ Matches(data[k], "name", name)
                        /\ \A j \in (k + 1)..Len(data) : ~Matches(data[j], "name", name)
        IN  get(data[last], field, default)]

\* f"{value:.0f}" of a rainfall kept in 1/10 mm
format_0f(value) == RoundDiv(value, 10)

\* an entry whose head count follows the vegetation reading
herd_grazing(id, name, lat, lng, heads, region, moving, water_days, ndvi, soil_moisture, rainfall_30d, ethnicity, text, stamp, printed) ==
    [id |-> id, name |-> name, lat |-> lat, lng |-> lng, heads |-> (heads * ndvi) \div 1000,
     region |-> region, trend |-> moving[1], speed |-> moving[2],
     water_days |-> water_days, ndvi |-> ndvi, soil_moisture |-> soil_moisture,
     rainfall_30d |-> rainfall_30d, ethnicity |-> ethnicity,
     note |-> [text |-> text, alert |-> 0], data_status |-> ESTIMATED,
     last_updated |-> stamp, evidence |-> printed]

\* one entry of base_herds.  lat and lng are in 1/100 degree, ndvi in 1/1000,
\* soil_moisture in 1/10000, rainfall_30d in 1/10 mm.  note is the text and
\* the number of fires of the alert appended to it; evidence keeps the
\* numbers the primary indicators print.
herd(id, name, lat, lng, heads, region, moving, water_days, ndvi, soil_moisture, rainfall_30d, ethnicity, text, stamp, printed) ==
    [id |-> id, name |-> name, lat |-> lat, lng |-> lng, heads |-> heads,
     region |-> region, trend |-> moving[1], speed |-> moving[2],
     water_days |-> water_days, ndvi |-> ndvi, soil_moisture |-> soil_moisture,
     rainfall_30d |-> rainfall_30d, ethnicity |-> ethnicity,
     note |-> [text |-> text, alert |-> 0], data_status |-> ESTIMATED,
     last_updated |-> stamp, evidence |-> printed]

\* a lookup that answers None for a missing name
lookup_get_none(d, name, default) == get(d, name, None)

\* ndvi_lookup.get(name, default), and the same of the other lookups
lookup_get(d, name, default) == get(d, name, default)

\* base_herds: the eight herds, each reading with the default written at
\* the place that reads it
base_herds(ndvi_lookup, soil_lookup, chirps_lookup, stamp) ==
    <<herd("A", "Herd Alfa", 832, 3318, 8200, "Jonglei - Sobat Valley", <<"NE", 11>>, 3,
           lookup_get(ndvi_lookup, "Jonglei", 410), lookup_get(soil_lookup, "Jonglei", 2000),
           lookup_get(chirps_lookup, "Jonglei", 500), "Nuer",
           "Moving toward Sobat River. Rapid pace suggests water stress upstream.",
           stamp, <<lookup_get(ndvi_lookup, "Jonglei", 410)>>),
      herd("B", "Herd Bravo", 924, 2976, 5400, "Unity State - Rubkona", <<"S", 9>>, 1,
           lookup_get(ndvi_lookup, "Unity", 520), lookup_get(soil_lookup, "Unity", 2500),
           lookup_get(chirps_lookup, "Unity", 600), "Nuer",
           "Near permanent water. Slow drift following fresh pasture.",
           stamp, <<lookup_get(ndvi_lookup, "Unity", 520)>>),
      herd("C", "Herd Charlie", 728, 2868, 11800, "Warrap - Tonj East", <<"E", 7>>, 5,
           lookup_get(ndvi_lookup, "Warrap", 380), lookup_get(soil_lookup, "Warrap", 1500),
           lookup_get(chirps_lookup, "Warrap", 300), "Dinka",
           "Largest tracked herd. Eastward movement consistent with seasonal pattern.",
           stamp, <<lookup_get(ndvi_lookup, "Warrap", 380),
                    format_0f(lookup_get(chirps_lookup, "Warrap", 300))>>),
      herd("D", "Herd Delta", 954, 3166, 6700, "Upper Nile - Malakal", <<"SW", 8>>, 4,
           lookup_get(ndvi_lookup, "Upper Nile", 450), lookup_get(soil_lookup, "Upper Nile", 1800),
           lookup_get(chirps_lookup, "Upper Nile", 400), "Shilluk",
           "Shifting southwest. NDVI decline in current zone is likely driver.",
           stamp, <<lookup_get(ndvi_lookup, "Upper Nile", 450)>>),
      herd("E", "Herd Echo", 680, 3312, 14200, "Jonglei - Pibor", <<"N", 14>>, 2,
           lookup_get(ndvi_lookup, "Pibor Area", 310), lookup_get(soil_lookup, "Pibor Area", 1200),
           lookup_get(chirps_lookup, "Jonglei", 250), "Murle",
           "Fastest-moving herd. LOW NDVI driving rapid northward movement. HIGH CONFLICT RISK.",
           stamp, <<lookup_get(ndvi_lookup, "Pibor Area", 310)>>),
      herd("F", "Herd Foxtrot", 682, 2968, 4300, "Lakes - Rumbek", <<"NE", 5>>, 6,
           lookup_get(ndvi_lookup, "Lakes", 600), lookup_get(soil_lookup, "Lakes", 2800),
           lookup_get(chirps_lookup, "Lakes", 700), "Dinka",
           "Stable herd. Good NDVI and rainfall. Normal seasonal drift.",
           stamp, <<lookup_get(ndvi_lookup, "Lakes", 600),
                    format_0f(lookup_get(chirps_lookup, "Lakes", 700))>>),
      herd("G", "Herd Golf", 548, 3178, 3800, "Equatoria - Terekeka", <<"N", 6>>, 7,
           lookup_get(ndvi_lookup, "Central Equatoria", 650),
           lookup_get(soil_lookup, "Central Equatoria", 3000),
           lookup_get(chirps_lookup, "Central Equatoria", 800), "Mundari",
           "Excellent conditions. Famous Mundari cattle camps - high confidence location.",
           stamp, <<lookup_get(ndvi_lookup, "Central Equatoria", 650)>>),
      herd("H", "Herd Hotel", 878, 2740, 9100, "Bahr el Ghazal - Aweil", <<"S", 11>>, 3,
           lookup_get(ndvi_lookup, "Western Bahr el Ghazal", 350),
           lookup_get(soil_lookup, "Western Bahr el Ghazal", 2000),
           lookup_get(chirps_lookup, "Western Bahr el Ghazal", 350), "Dinka",
           "ANOMALY: Southward movement unusual for season. Possible flooding displacement.",
           stamp, <<lookup_get(ndvi_lookup, "Western Bahr el Ghazal", 350)>>)>>

Abs(n) == IF n < 0 THEN 0 - n ELSE n

\* abs(f - h) < 0.5 of the doubles of a hotspot coordinate f and a herd
\* coordinate h, both in 1/100 degree.  Over the sixteen coordinates of
\* base_herds the doubles compare as the decimals do, but for one pair at
\* 0.50 exactly: 32.16 - 31.66 is the double 0.49999999999999645
within_half_degree(f, h) == Abs(f - h) < 50 \/ <<f, h>> = <<3216, 3166>>

\* f.get("lat") and f.get("lng") and abs(f["lat"] - herd["lat"]) < 0.5 and
\* abs(f["lng"] - herd["lng"]) < 0.5
nearby_fires(fire_data, h) ==
    SelectSeq(fire_data,
              LAMBDA f : /\ get(f, "lat", None) \notin {None, 0}
                         /\ get(f, "lng", None) \notin {None, 0}
                         /\ within_half_degree(f.lat, h.lat)
                         /\ within_half_degree(f.lng, h.lng))

\* the body of "for herd in base_herds" under "if fire_data"
fire_alert(fire_data, h) ==
    LET n == Len(nearby_fires(fire_data, h))
    IN  IF fire_data # <<>> /\ n > 0
        THEN Merge(h, [note |-> [text |-> h.note.text, alert |-> n],
                       fire_alert |-> TRUE, nearby_fires |-> n])
        ELSE h

\* generate_evidence_based_herds on the collections it reads, called when
\* the clock reads clock
generate_evidence_based_herds(ndvi_data, fire_data, soil_data, chirps_data, meta, clock) ==
    LET ndvi_lookup == lookup(ndvi_data, "ndvi", 450)
        soil_lookup == lookup(soil_data, "soil_moisture", 2000)
        chirps_lookup == lookup(chirps_data, "rainfall_30d_mm", 500)
        herds == base_herds(ndvi_lookup, soil_lookup, chirps_lookup,
                            last_updated_str(meta, clock))
    IN  [k \in 1..Len(herds) |-> fire_alert(fire_data, herds[k])]

\* sum(h["heads"] for h in herds)
RECURSIVE total_cattle(_, _)
total_cattle(herds, i) ==
    IF i > Len(herds) THEN 0 ELSE herds[i].heads + total_cattle(herds, i + 1)

\* get_cached_fires, find({}) and to_list(1000), over a collection no write
\* lands in meanwhile
get_cached_fires(coll) == SubSeq(coll, 1, Min(1000, Len(coll)))

\* what GET /api/herds answers on what its six reads returned, the clock
\* read after the fifth
get_herds(got, clock) ==
    LET herds == generate_evidence_based_herds(got[1], got[2], got[3], got[4], got[5], clock)
        last == get_last_update_info(got[6])
    IN  [herds |-> herds, count |-> Len(herds), total_cattle |-> total_cattle(herds, 1),
         data_status |-> ESTIMATED, last_updated |-> get(last, "timestamp", None)]

\* len([z for z in zones if ...])
count_zones(zones, field, value) ==
    Cardinality({k \in 1..Len(zones) : get(zones[k], field, None) = value})

\* what GET /api/conflict-zones answers on what its three reads returned,
\* the clock read after the second
get_conflict_zones(got, clock) ==
    LET zones == process_conflicts_to_zones(got[1], got[2], clock)
        last == get_last_update_info(got[3])
        live_count == count_zones(zones, "data_status", LIVE)
    IN  [zones |-> zones, count |-> Len(zones), live_zones |-> live_count,
         historical_zones |-> Len(zones) - live_count,
         critical_count |-> count_zones(zones, "risk_level", "Critical"),
         high_count |-> count_zones(zones, "risk_level", "High"),
         data_status |-> IF live_count > 0 THEN LIVE ELSE HISTORICAL,
         last_updated |-> get(last, "timestamp", None)]

\* the slots of a gather in which every routine got its usual answer and
\* ran to its end, without Earth Engine
UsualSlots ==
    [i \in Routines |-> Finished(Coroutine(i, Usual(i, FALSE), FALSE), Usual(i, FALSE))]

\* the update_results of such a cycle
UsualResults ==
    [name \in {sources[i] : i \in Routines} |->
        update_results_entry(UsualSlots, CHOOSE i \in Routines : sources[i] = name)]

\* what the caches can hold when a request comes in: nothing, or what the
\* routines stored for some regions; the metadata record of a cycle that
\* ended eleven minutes before, or none
NdviCaches ==
    {<<>>, <<region_doc("ndvi", "Jonglei", Reading(5230000)),
             region_doc("ndvi", "Pibor Area", Reading(300000))>>}
SoilCaches == {<<>>, <<region_doc("soil_moisture", "Jonglei", Reading(0))>>}
ChirpsCaches ==
    {<<>>, <<region_doc("chirps_rainfall", "Jonglei", Reading(523))>>,
     <<region_doc("chirps_rainfall", "Warrap", Reading(125))>>}
FireCaches ==
    {<<>>, <<FireOfRow(<<Num(832), Num(3318)>>)>>,
     <<FireOfRow(<<Num(700), Num(3300)>>), FireOfRow(<<Num(690), Num(3310)>>),
       FireOfRow(<<Num(954), Num(3216)>>), FireOfRow(<<Num(954), Num(3116)>>)>>,
     <<FireOfRow(<<Num(100), Num(100)>>)>>}
ManyFires ==
    [k \in 1..1001 |-> IF k <= 1000 THEN FireOfRow(<<Num(100), Num(100)>>)
                                    ELSE FireOfRow(<<Num(832), Num(3318)>>)]
AcledCaches ==
    {events \in SeqsUpTo({e \in CachedEvents : e.latitude = 68 /\ e.fatalities \in {0, 10}}, 3) :
        Len(events) # 1}
MetaStores ==
    {<<>>, update_one(<<>>, "_id", "last_batch_update",
                      [timestamp |-> 0 - update_interval - 1, results |-> UsualResults,
                       next_update |-> 0 - 1])}

\* the store that holds these collections and nothing else
Store(ndvi, soil, chirps, fires, events, meta) ==
    [c \in CollectionNames |->
        CASE c = "ndvi_cache" -> ndvi
          [] c = "soil_moisture_cache" -> soil
          [] c = "chirps_cache" -> chirps
          [] c = "fire_cache" -> fires
          [] c = "acled_events" -> events
          [] c = "system_meta" -> meta
          [] OTHER -> <<>>]

\* the stores a request is served over: every filling of the caches the
\* herds are made from, every filling of the conflict cache, a fire cache of
\* more than a thousand hotspots, and a store in which every cache read holds
\* records; each with the metadata record and without
ReadStores ==
    {Store(ndvi, soil, chirps, fires, <<>>, meta) :
        ndvi \in NdviCaches, soil \in SoilCaches, chirps \in ChirpsCaches,
        fires \in FireCaches, meta \in MetaStores}
      \cup {Store(<<>>, <<>>, <<>>, <<>>, events, meta) :
               events \in AcledCaches, meta \in MetaStores}
      \cup {Store(<<>>, <<>>, <<>>, ManyFires, <<>>, meta) : meta \in MetaStores}
      \cup {Store(ndvi, <<>>, <<>>, <<>>, events, meta) :
               ndvi \in NdviCaches \ {<<>>},
               events \in {e \in AcledCaches : Len(e) = 3 /\ \A k \in 1..3 : e[k] = e[1]},
               meta \in MetaStores \ {<<>>}}

\* what a cycle leaves in the caches when every routine got its usual
\* answer, without Earth Engine, over the metadata meta
CycleStore(meta) ==
    [c \in CollectionNames |->
        IF c = "system_meta" THEN meta
        ELSE IF c = "ai_history" THEN <<>>
        ELSE LET i == CHOOSE j \in Routines : collections[j] = c
             IN  Routine(i, <<>>, Usual(i, FALSE), FALSE).coll]

\* a request comes in while nothing is written ("idle"); or while the NDVI
\* routine, called without Earth Engine as the routine harness calls it, is
\* at its first write ("routine"); or while a cycle that has joined its
\* gather at minute 0 awaits the write of its record ("meta")
ReadInit ==
    /\ GEE_INITIALIZED = FALSE
    /\ now = 0
    /\ faults = 0
    /\ arrived_busy = [t \in Tasks |-> FALSE]
    /\ dropped = {}
    /\ call = NoCall
    /\ calls = 0
    /\ ret = NoRet
    /\ req = NoReq
    /\ deleted = [c \in CollectionNames |-> 0]
    /\ \E under \in {"idle", "routine", "meta"} :
          /\ db \in CASE under = "idle" -> ReadStores
                       [] under = "routine" ->
                             {Store(ndvi, <<>>, <<>>, <<>>, <<>>, meta) :
                                 ndvi \in NdviCaches, meta \in MetaStores}
                       [] under = "meta" -> {CycleStore(meta) : meta \in MetaStores}
          /\ is_updating = (under = "meta")
          /\ pc = [t \in Tasks |-> IF t = 0 /\ under = "meta" THEN "meta" ELSE "unborn"]
          /\ results = [t \in Tasks |->
                           IF t # 0 \/ under = "idle" THEN [i \in Routines |-> NoSlot]
                           ELSE IF under = "meta" THEN UsualSlots
                           ELSE [i \in Routines |->
                                    IF i = 2 THEN [Pending EXCEPT !.inp = Usual(2, FALSE)]
                                    ELSE NoSlot]]
          /\ last_update = IF under = "meta" THEN 0 ELSE None
          /\ update_results = IF under = "meta" THEN UsualResults ELSE NoDoc
          /\ last_cycle = IF under = "meta" THEN 0 ELSE None

\* the awaits of the handler of r are over: it has the last of its reads, or
\* the zone assessment raises after its two
Over(r) ==
    \/ Len(r.got) = Len(Reads(r))
    \/ /\ r.f = "get_conflict_zones"
       /\ Len(r.got) = 2
       /\ process_conflicts_to_zones_raises(r.got[1])

\* what the handler of r answers then; an exception of the zone assessment
\* leaves the handler and the request is answered 500.  The answer is kept
\* with what the handler read
Answer(r) ==
    IF r.f = "get_herds"
    THEN [f |-> r.f, value |-> get_herds(r.got, r.clock), read |-> r.got, seen |-> r.seen]
    ELSE IF Len(r.got) = 2
    THEN [f |-> r.f, status |-> 500, read |-> r.got, seen |-> r.seen]
    ELSE [f |-> r.f, value |-> get_conflict_zones(r.got, r.clock), read |-> r.got,
          seen |-> r.seen]

\* a step of the handler f: the request comes in, if none is being served,
\* and the read the handler awaits is answered; after the last read the
\* handler answers
serve(f) ==
    /\ req.f \in {"none", f}
    /\ req.f = "none" => calls < MaxCalls
    /\ calls' = IF req.f = "none" THEN calls + 1 ELSE calls
    /\ LET r == await_read([req EXCEPT !.f = f], db, deleted, now)
       IN  IF Over(r) THEN req' = NoReq /\ ret' = Answer(r)
           ELSE req' = r /\ UNCHANGED ret

\* a request that also records when it was served
call_get_herds_stamping ==
    /\ serve("get_herds")
    /\ db' = [db EXCEPT !["system_meta"] =
                 update_one(@, "_id", "last_request", [timestamp |-> now])]
    /\ UNCHANGED <<GEE_INITIALIZED, deleted, faults, schedVars, call>>

\* a step of a request GET /api/herds
call_get_herds ==
    /\ serve("get_herds")
    /\ UNCHANGED <<GEE_INITIALIZED, db, deleted, faults, schedVars, call>>

\* a step of a request GET /api/conflict-zones
call_get_conflict_zones ==
    /\ serve("get_conflict_zones")
    /\ UNCHANGED <<GEE_INITIALIZED, db, deleted, faults, schedVars, call>>

\* a minute passes
minute_passes ==
    /\ now < MaxMinutes
    /\ now' = now + 1
    /\ UNCHANGED <<GEE_INITIALIZED, db, deleted, faults, is_updating, last_update, update_results,
                   pc, results, arrived_busy, dropped, last_cycle, harnessVars>>

\* the requests are served step by step while the minutes pass and the
\* cycle under way goes on: a write of its routine takes effect, the routine
\* ends, the record of the cycle is written, the cycle returns
ReadNext ==
    \/ call_get_herds
    \/ call_get_conflict_zones
    \/ minute_passes
    \/ routine_write(0, 2)
    \/ routine_end(0, 2)
    \/ \E ok \in BOOLEAN : run_batch_update_meta(0, ok)
    \/ run_batch_update_end(0)

ReadSpec == ReadInit /\ [][ReadNext]_vars

\* ------------------------------------------- a read during a replacement
\* the routines that replace the batch of a list-valued cache
ListRoutines == {6, 7, 9, 10}

\* get_cached_conflicts, get_cached_fires, get_cached_disasters and
\* get_cached_news, find({}) and to_list(n), over a collection no write
\* lands in meanwhile
get_cached(i, coll) == SubSeq(coll, 1, Min(to_list_length(collections[i]), Len(coll)))

\* a batch of more documents than the first reply of a cursor holds
ManyEvents == [k \in 1..(FirstBatch + 1) |-> Event(100 + k)]
ManyRows == <<Header>> \o [k \in 1..(FirstBatch + 1) |-> <<Num(100 + k), Num(3000)>>]

\* the answers the routines are given here: the usual batch, another one,
\* a status that is not 200, the usual batch with an insert_many that
\* raises, and for the conflict and the fire source a batch of 102 items
ReplaceInputs(i) ==
    LET def == DefaultInput(i, FALSE)
    IN  {def, Input(Status(503), 0), Input(def.resp, 2)}
          \cup CASE i = 6 -> {Input(Ok([data |-> <<Event(3)>>]), 0),
                              Input(Ok([data |-> ManyEvents]), 0)}
                 [] i = 7 -> {Input(Ok(<<Header, <<Num(700), Num(3000)>>>>), 0),
                              Input(Ok(ManyRows), 0)}
                 [] i = 9 -> {Input(Ok([features |-> <<Event(8), Event(9)>>]), 0)}
                 [] i = 10 -> {Input(Ok([data |-> <<Report(2), Report(3)>>]), 0)}

\* call keeps the last call of each of the routines
ReplaceInit ==
    /\ GEE_INITIALIZED = FALSE
    /\ is_updating = FALSE
    /\ last_update = None
    /\ update_results = NoDoc
    /\ db = [c \in CollectionNames |-> <<>>]
    /\ deleted = [c \in CollectionNames |-> 0]
    /\ now = 0
    /\ pc = [t \in Tasks |-> "unborn"]
    /\ results = [t \in Tasks |-> [i \in Routines |-> NoSlot]]
    /\ faults = 0
    /\ arrived_busy = [t \in Tasks |-> FALSE]
    /\ dropped = {}
    /\ last_cycle = None
    /\ call = [i \in ListRoutines |-> NoCall]
    /\ calls = 0
    /\ ret = NoRet
    /\ req = NoReq

\* a list-valued routine starts, as the gather of a cycle starts it beside
\* the others, and awaits the upstream answer inp; its awaited writes take
\* effect one by one (routine_write) and it ends (routine_end)
routine_request(i, inp) ==
    /\ i \in ListRoutines
    /\ calls < MaxCalls
    /\ results[0][i].st # "pending"
    /\ LET given == [inp EXCEPT !.uuids = calls * NewsLimit]
       IN  /\ results' = [results EXCEPT ![0][i] =
                             IF Synchronous(i, GEE_INITIALIZED, given)
                             THEN Finished(Coroutine(i, given, GEE_INITIALIZED), given)
                             ELSE [Pending EXCEPT !.inp = given]]
           /\ call' = [call EXCEPT ![i] = [i |-> i, inp |-> given,
                                           before |-> db[collections[i]]]]
    /\ calls' = calls + 1
    /\ UNCHANGED <<GEE_INITIALIZED, db, deleted, faults, is_updating, last_update,
                   update_results, now, pc, arrived_busy, dropped, last_cycle, ret, req>>

\* the run of routine i a read finds: whether it is at an await, and which
\* call it is
RunOf(i) == [pending |-> results[0][i].st = "pending",
             run |-> <<call[i].i, call[i].inp.uuids>>]

\* a step of get_cached_conflicts, get_cached_fires, get_cached_disasters or
\* get_cached_news, find({}) and to_list(n): the read is begun, if none is
\* under way, and the store sends a reply; with the last reply the list is
\* returned.  The harness serves one read; found is the collection as the
\* read found it, during the call of the routine of that cache that was
\* under way at some step of the read, if any
call_get_cached(i) ==
    /\ i \in ListRoutines
    /\ IF req.f = "none" THEN ret = NoRet ELSE req.f = "get_cached" /\ req.i = i
    /\ LET began == IF req.f = "none"
                    THEN [NoReq EXCEPT !.f = "get_cached", !.i = i,
                                       !.kept = Merge(RunOf(i),
                                                      [found |-> db[collections[i]]])]
                    ELSE req
           r == await_read(began, db, deleted, now)
       IN  IF Len(r.got) = 1
           THEN /\ req' = NoReq
                /\ ret' = [f |-> "get_cached", i |-> i, value |-> r.got[1],
                           replies |-> r.replies, found |-> began.kept.found,
                           during |-> IF began.kept.pending \/ RunOf(i).pending
                                         \/ began.kept.run # RunOf(i).run
                                      THEN call[i] ELSE NoCall]
           ELSE req' = r /\ UNCHANGED ret
    /\ UNCHANGED <<GEE_INITIALIZED, db, deleted, faults, schedVars, call, calls>>

ReplaceNext ==
    \/ \E i \in ListRoutines : \E inp \in ReplaceInputs(i) : routine_request(i, inp)
    \/ \E i \in ListRoutines : routine_write(0, i)
    \/ \E i \in ListRoutines : routine_end(0, i)
    \/ \E i \in ListRoutines : call_get_cached(i)

ReplaceSpec == ReplaceInit /\ [][ReplaceNext]_vars

\* ------------------------------------------------------ the analysis handler
\* what llm.send_message does: it returns the answer or raises an exception
\* whose text is text
LlmOutcomes == {[raised |-> r, text |-> t] : r \in BOOLEAN, t \in {"first", "second"}}

\* the answer 500 of the except clause, detail f"AI analysis failed:
\* {str(e)}"; the answer is kept with what the request went through
ai_analyze_failed(r, e, history) ==
    Merge([f |-> "ai_analyze", status |-> 500,
           detail |-> [message |-> "AI analysis failed", error |-> e],
           after |-> history],
          r.kept)

\* a step of the awaits of a request POST /api/ai/analyze before the model
\* is asked: the request comes in, if none is being served, and the read
\* the handler awaits is answered.  The zone assessment can raise after its
\* two reads, into the except clause; after the last read the prompt is
\* made and send_message is awaited
ai_analyze(query) ==
    /\ IF req.f = "none" THEN Len(db["ai_history"]) < MaxHistory
       ELSE req.f = "ai_analyze" /\ req.kept.query = query /\ req.kept.at = "reads"
    /\ LET began == IF req.f = "none"
                    THEN [NoReq EXCEPT !.f = "ai_analyze",
                                       !.kept = [query |-> query, at |-> "reads",
                                                 before |-> db["ai_history"]]]
                    ELSE req
           r == await_read(began, db, deleted, now)
       IN  IF Len(r.got) = 9 /\ process_conflicts_to_zones_raises(r.got[8])
           THEN /\ req' = NoReq
                /\ ret' = ai_analyze_failed(r, process_conflicts_to_zones_error(r.got[8]),
                                            db["ai_history"])
           ELSE /\ req' = IF Len(r.got) = Len(Reads(r))
                          THEN [r EXCEPT !.kept.at = "send_message"] ELSE r
                /\ UNCHANGED ret
    /\ UNCHANGED <<GEE_INITIALIZED, db, deleted, faults, schedVars, call, calls>>

\* "await llm.send_message(...)" answers: it raises, into the except clause,
\* or it returns the text; the handler reads the clock for the record and
\* awaits insert_one
send_message(llm) ==
    /\ req.f = "ai_analyze" /\ req.kept.at = "send_message"
    /\ IF llm.raised
       THEN /\ req' = NoReq
            /\ ret' = ai_analyze_failed([req EXCEPT !.kept = Merge(@, [llm |-> llm])],
                                        llm.text, db["ai_history"])
       ELSE /\ req' = [req EXCEPT !.kept = Merge(@, [at |-> "insert_one", llm |-> llm,
                                                      timestamp |-> now])]
            /\ UNCHANGED ret
    /\ UNCHANGED <<GEE_INITIALIZED, db, deleted, faults, schedVars, call, calls>>

\* "await db.ai_history.insert_one(...)": the record is in the store, or the
\* operation raises, into the except clause
insert_one(db_ok) ==
    /\ req.f = "ai_analyze" /\ req.kept.at = "insert_one"
    /\ IF db_ok
       THEN /\ db' = [db EXCEPT !["ai_history"] =
                         insert_many(@, <<[query |-> req.kept.query,
                                           response |-> req.kept.llm.text,
                                           timestamp |-> req.kept.timestamp]>>)]
            /\ req' = [req EXCEPT !.kept.at = "return"]
            /\ UNCHANGED ret
       ELSE /\ req' = NoReq
            /\ ret' = ai_analyze_failed(req, "insert_one", db["ai_history"])
            /\ UNCHANGED db
    /\ UNCHANGED <<GEE_INITIALIZED, deleted, faults, schedVars, call, calls>>

\* the handler is resumed after the insert: it reads the clock again and
\* returns the answer
ai_analyze_return ==
    /\ req.f = "ai_analyze" /\ req.kept.at = "return"
    /\ req' = NoReq
    /\ ret' = Merge([f |-> "ai_analyze", status |-> 200,
                     value |-> [response |-> req.kept.llm.text, timestamp |-> now],
                     after |-> db["ai_history"]],
                    req.kept)
    /\ UNCHANGED <<GEE_INITIALIZED, db, deleted, faults, schedVars, call, calls>>

\* the store of a request for analysis: conflict events that let the zone
\* assessment return or raise, and no exchange recorded yet
AnalyzeInit ==
    /\ ZoneInit
    /\ \/ db["acled_events"] = <<>>
       \/ /\ Len(db["acled_events"]) = 3
          /\ \A k \in 1..3 : get(db["acled_events"][k], "latitude", 0) = 68
          /\ \A k \in 1..3 : get(db["acled_events"][k], "event_date", 0) = 3
       \/ Len(db["acled_events"]) > 3

AnalyzeNext ==
    \/ \E query \in {"where", "when"} : ai_analyze(query)
    \/ \E llm \in LlmOutcomes : send_message(llm)
    \/ \E db_ok \in BOOLEAN : insert_one(db_ok)
    \/ ai_analyze_return
    \/ minute_passes

AnalyzeSpec == AnalyzeInit /\ [][AnalyzeNext]_vars

\* ---------------------------------------------------------------- claims
\* the task has run a cycle: its gather was started
Ran(t) == results[t][1].st # "none"

\* the tasks past the is_updating check and not yet at the finally clause
InCycle == {t \in Tasks : pc[t] \in {"gather", "meta", "written"}}

\* the cycle of t is the last one that ended and no later one is running
Settled(t) == last_cycle = t /\ \A u \in Tasks : pc[u] # "gather"

MetaDoc == find_one(db["system_meta"], "_id", "last_batch_update")

\* C1: under every interleaving of the startup task and the trigger tasks, at
\* most one run_batch_update is past the is_updating check at any time.
C1_MutualExclusion == Cardinality(InCycle) <= 1

\* C1 witness: a cycle is fetching while another call has come and gone.
C1_Witness ==
    \E t \in Tasks : pc[t] = "gather" /\ (\E i \in Routines : results[t][i].st = "pending")
                     /\ dropped # {}

\* C2: a call made while is_updating is true returns at once: it ends, and
\* last_update, update_results, is_updating, the store (system_meta and the
\* caches) stay as they were and no routine is started or answered.
C2_SkipChangesNothing ==
    [][\A t \in Tasks :
          (pc[t] = "scheduled" /\ is_updating /\ pc'[t] # pc[t])
              => /\ pc'[t] = "done"
                 /\ UNCHANGED <<last_update, update_results, is_updating, db, results,
                                faults, now, last_cycle>>]_vars

\* C2 witness: a call has just returned at the check, in the middle of a
\* cycle that has already written to a cache.
C2_Witness ==
    /\ is_updating
    /\ \E t \in dropped : pc[t] = "done" /\ ~Ran(t)
    /\ \E c \in CollectionNames : db[c] # <<>>

\* the writes routine i of the cycle of t performed are in the store: all of
\* them have taken effect, and to apply them again changes nothing
WritesPresent(t, i) ==
    LET ops == Coroutine(i, results[t][i].inp, GEE_INITIALIZED).ops
    IN  /\ results[t][i].k = Len(ops)
        /\ ApplyAll(ops, db[collections[i]], 1) = db[collections[i]]

\* C3: when a routine of a cycle raised, every other routine of the cycle has
\* still run to its end when the cycle ends, and the writes each routine
\* performed are in the store after the cycle.
C3_FanOutIsolation ==
    \A t \in Tasks :
        (Ran(t) /\ pc[t] \in {"meta", "written", "done", "raised"})
            => /\ \A i \in Routines : results[t][i].st \in {"returned", "raised"}
               /\ Settled(t) => \A i \in Routines : WritesPresent(t, i)

\* C3 witness: a cycle has ended in which one routine raised and another
\* one's write is in the store.
C3_Witness ==
    \E t \in Tasks :
        /\ pc[t] = "done" /\ Settled(t)
        /\ \E i \in Routines : results[t][i].st = "raised"
        /\ \E j \in Routines : results[t][j].st = "returned" /\ db[collections[j]] # <<>>

\* C4: last_update is assigned, system_meta is written and is_updating is
\* cleared only in a step before which no routine of a gather is pending.
C4_CompleteOnlyAfterAll ==
    [][(\/ last_update' # last_update
        \/ db'["system_meta"] # db["system_meta"]
        \/ (is_updating /\ ~is_updating'))
          => \A t \in Tasks, i \in Routines : results[t][i].st # "pending"]_vars

\* C4 witness: a cycle with a raising routine is complete: timestamp taken,
\* record written, flag cleared.
C4_Witness ==
    \E t \in Tasks :
        /\ pc[t] = "done" /\ Ran(t) /\ ~is_updating
        /\ last_update # None /\ db["system_meta"] # <<>>
        /\ \E i \in Routines : results[t][i].st = "raised"

\* C5: whenever is_updating is true it is false again later, given that every
\* pending routine ends and every runnable task runs; also when routines
\* raise and when the write to system_meta fails.
C5_FlagEventuallyCleared == is_updating ~> ~is_updating

\* C5 witness: a cycle set the flag, the write of its metadata failed, and
\* the flag is false again.
C5_Witness ==
    \E t \in Tasks :
        /\ pc[t] = "done" /\ Ran(t) /\ ~is_updating
        /\ last_update # None /\ db["system_meta"] = <<>>

\* C6 as stated: the cycles started are never more than the triggers that
\* arrived (were scheduled) while is_updating was false.
C6_CyclesWithinIdleArrivals ==
    Cardinality({t \in Tasks : Ran(t)})
        <= Cardinality({t \in Tasks : pc[t] # "unborn" /\ ~arrived_busy[t]})

\* C6 amended: a call of run_batch_update that finds is_updating true is
\* dropped, not queued: it is over and never starts a cycle, so the cycles
\* started are never more than the calls that found is_updating false.
C6_DroppedNotQueued ==
    /\ \A t \in dropped : pc[t] = "done" /\ ~Ran(t)
    /\ Cardinality({t \in Tasks : Ran(t)})
          <= Cardinality({t \in Tasks : pc[t] \notin {"unborn", "scheduled"}} \ dropped)

\* C6 witness: a call was dropped during a cycle, the cycle is complete and
\* nothing is running or waiting.
C6_Witness ==
    /\ dropped # {}
    /\ ~is_updating
    /\ \A t \in Tasks : pc[t] = "done"
    /\ Cardinality({t \in Tasks : Ran(t)}) = 1

\* C7: run_batch_update never ends with an exception raised to its caller.
C7_NeverPropagates == \A t \in Tasks : pc[t] # "raised"

\* C7 witness: a call has returned although a routine raised and the write to
\* system_meta failed.
C7_Witness ==
    \E t \in Tasks :
        /\ pc[t] = "done" /\ Ran(t) /\ last_cycle = t
        /\ db["system_meta"] = <<>>
        /\ \E i \in Routines : results[t][i].st = "raised"

\* C8: after a cycle has recorded its results and until the next one does,
\* update_results has exactly the eleven source names as keys, and the entry
\* of each source is "error" with the exception's text iff that source's own
\* routine raised in this cycle, else "success" with what that routine returned.
C8_ResultsPerSource ==
    \A t \in Tasks :
        (last_cycle = t /\ pc[t] \in {"meta", "written", "done"})
            => /\ DOMAIN update_results = {sources[i] : i \in Routines}
               /\ Cardinality(DOMAIN update_results) = 11
               /\ \A i \in Routines :
                     /\ update_results[sources[i]].status = "error"
                           <=> results[t][i].st = "raised"
                     /\ update_results[sources[i]].status \in {"error", "success"}
                     /\ update_results[sources[i]].message = results[t][i].message

\* C8 witness: a second cycle has recorded "success" for a source whose
\* routine raised in the cycle before.
C8_Witness ==
    \E t, u \in Tasks :
        /\ t # u /\ Ran(u) /\ pc[u] = "done"
        /\ last_cycle = t /\ pc[t] = "done"
        /\ \E i \in Routines :
              /\ results[u][i].st = "raised"
              /\ results[t][i].st = "returned"
              /\ update_results[sources[i]].status = "success"

\* the upstream call of the last routine call failed: it raised or timed out,
\* or answered with a status that is not 200 (for weather: one of its calls)
UpstreamFailed ==
    /\ call.i \in {1, 6, 7, 9, 10}
    /\ IF call.i = 1 /\ call.inp.resp.status = 200
       THEN \E k \in 1..Len(call.inp.resp.body) : call.inp.resp.body[k].status # 200
       ELSE call.inp.resp.status # 200

\* C9 as stated: when the upstream call of the weather, conflict, fire,
\* disaster or news routine fails, the routine's collection is the same
\* before and after the routine.
C9_CollectionUntouched ==
    UpstreamFailed => db[collections[call.i]] = call.before

\* C9 amended: when the single upstream call of the conflict, fire, disaster
\* or news routine fails, the routine's collection is the same before and
\* after; the weather routine makes one call per location, and the record
\* of every location whose call failed is the same before and after (the
\* records of the locations whose call succeeded are rewritten).
C9_FailedCallLeavesCache ==
    UpstreamFailed =>
        IF call.i = 1 /\ call.inp.resp.status = 200
        THEN \A k \in 1..Len(call.inp.resp.body) :
                call.inp.resp.body[k].status # 200
                    => LET name == Modelled(weather_locations)[k]
                       IN  find_one(db["weather_cache"], "location", name)
                             = find_one(call.before, "location", name)
        ELSE db[collections[call.i]] = call.before

\* C9 witness: the conflict routine ran on a 503 answer over a filled cache.
C9_Witness ==
    /\ call.i = 6 /\ call.inp.resp = Status(503)
    /\ results[0][6].st = "returned"
    /\ call.before # <<>>
    /\ db["acled_events"] = call.before

\* the last routine call got a 200 answer whose list field is missing or
\* whose rows all fail to parse
MalformedBody ==
    /\ call.i \in {6, 7, 9, 10}
    /\ call.inp.db_fail = 0
    /\ call.inp.resp.status = 200
    /\ CASE call.i = 7 ->
               Len(call.inp.resp.body) > 1 /\ ParseFires(call.inp.resp.body, 2) = <<>>
         [] call.i = 9 ->
               call.inp.resp.body = NoDoc \/ call.inp.resp.body = NotADict
         [] OTHER ->
               call.inp.resp.body = NoDoc \/ call.inp.resp.body = [data |-> <<NotADict>>]

\* C10: after a malformed body the owning routine leaves the cache at its
\* previous value: the items cached before are still there.
C10_MalformedKeepsCache ==
    MalformedBody => db[collections[call.i]] = call.before

\* C11 as stated: a GEE-backed routine (ndvi, soil moisture, CHIRPS,
\* nighttime lights, flood, methane) called while GEE_INITIALIZED is false
\* leaves every record that was in its collection as it was, reading and
\* data_status included.
C11_GeeOffKeepsRecords ==
    (call.i \in {2, 3, 4, 5, 8, 11} /\ ~GEE_INITIALIZED)
        => \A k \in 1..Len(call.before) :
              find_one(db[collections[call.i]], "name", call.before[k].name) = call.before[k]

\* the items the last call of a list-valued routine fetched: what the answer
\* holds once parsed
Fetched ==
    LET body == call.inp.resp.body
    IN  CASE call.i = 6 -> Tag(IF "data" \in DOMAIN body THEN body.data ELSE <<>>, LIVE)
          [] call.i = 7 -> IF Len(body) > 1 THEN ParseFires(body, 2) ELSE <<>>
          [] call.i = 9 -> Tag(IF IsDict(body) /\ "features" \in DOMAIN body
                               THEN body.features ELSE <<>>, LIVE)
          [] call.i = 10 ->
                LET reports == IF "data" \in DOMAIN body THEN body.data ELSE <<>>
                    first == SubSeq(reports, 1, Min(NewsLimit, Len(reports)))
                IN  [k \in 1..Len(first) |-> NewsItem(first[k], call.inp.uuids + k)]

\* the last routine call is over: the routine has returned or raised
CallEnded == call.i \in Routines /\ results[0][call.i].st \in {"returned", "raised"}

\* the last call was a list-valued routine that reported "Stored n ..."
StoredBatch ==
    /\ call.i \in {6, 7, 9, 10}
    /\ results[0][call.i].st = "returned"
    /\ results[0][call.i].message[1] \in
          {"Stored ACLED events (LIVE)", "Stored fire hotspots (LIVE)",
           "Stored GDACS alerts", "Stored news articles (LIVE)"}

\* C12 as stated: after a call of a list-valued routine whose upstream call
\* succeeded (status 200, the routine returned, the database accepted the
\* writes) the collection holds exactly the items of that call's batch.
C12_LatestSuccessfulBatch ==
    (/\ call.i \in {6, 7, 9, 10}
     /\ call.inp.resp.status = 200 /\ call.inp.db_fail = 0
     /\ results[0][call.i].st = "returned")
        => db[collections[call.i]] = Fetched

\* C12 amended: a call of a list-valued routine that reports "Stored n"
\* leaves exactly the n items of its own batch in the collection and none of
\* an earlier one; every other call leaves the collection as it was, or
\* empty when a write failed after the delete. The collection is never a mix
\* of batches, so it is never larger than one batch.
C12_SingleBatch ==
    call.i \in {6, 7, 9, 10}
        => LET after == db[collections[call.i]]
           IN  /\ CallEnded =>
                      IF StoredBatch
                      THEN after = Fetched /\ Len(after) = results[0][call.i].message[2]
                      ELSE after = call.before \/ after = <<>>
               /\ \/ after = call.before
                  \/ after = <<>>
                  \/ call.inp.resp.status = 200 /\ after = Fetched

\* C12 witness: a call has replaced a filled collection by another batch
\* that shares no item with it.
C12_Witness ==
    /\ StoredBatch
    /\ call.before # <<>>
    /\ db[collections[call.i]] # <<>>
    /\ \A j \in 1..Len(call.before), k \in 1..Len(db[collections[call.i]]) :
          call.before[j] # db[collections[call.i]][k]

\* the field each per-zone collection is keyed by
ZoneKey(c) == IF c = "weather_cache" THEN "location" ELSE "name"

ZoneCollections == {collections[i] : i \in {1, 2, 3, 4, 5, 8, 11}}

\* C13: every per-zone collection (weather, ndvi, soil moisture, CHIRPS,
\* nighttime lights, flood, methane) holds at most one record per zone or
\* location name, every record has that name, and a write for a name that
\* is present goes to its record.
C13_OneRecordPerZone ==
    \A c \in ZoneCollections :
        /\ \A j \in 1..Len(db[c]) : ZoneKey(c) \in DOMAIN db[c][j]
        /\ \A j, k \in 1..Len(db[c]) :
              db[c][j][ZoneKey(c)] = db[c][k][ZoneKey(c)] => j = k

\* C13 witness: the last call wrote over the record of a name that was
\* present (the reading changed) and created the record of one that was not.
C13_Witness ==
    /\ call.i \in {1, 2, 3, 4, 5, 8, 11}
    /\ LET c == collections[call.i]
       IN  /\ \E j \in 1..Len(call.before) :
                 LET doc == find_one(db[c], ZoneKey(c), call.before[j][ZoneKey(c)])
                 IN  doc # NoDoc /\ doc # call.before[j]
           /\ Len(db[c]) > Len(call.before)

\* the five freshness tags of DataStatus
FreshnessTags == {LIVE, CACHED, ESTIMATED, HISTORICAL, STATIC}

CacheCollections == {collections[i] : i \in Routines}

\* C14: every record in every cache collection has a data_status field and
\* its value is one of the five freshness tags.
C14_EveryRecordTagged ==
    \A c \in CacheCollections :
        \A j \in 1..Len(db[c]) :
            "data_status" \in DOMAIN db[c][j] /\ db[c][j].data_status \in FreshnessTags

\* C14 witness: after two routine calls the store holds a list-valued
\* collection with tagged items and a per-zone record that is not LIVE.
C14_Witness ==
    /\ calls = 2 /\ call.i \in Routines
    /\ \E c \in {"acled_events", "disaster_cache"} :
          db[c] # <<>> /\ db[c][1].data_status = LIVE
    /\ \E c \in ZoneCollections :
          db[c] # <<>> /\ db[c][1].data_status \in {ESTIMATED, HISTORICAL}

\* C15: should_update returns true iff last_update is None or more than ten
\* minutes have passed since last_update (false at exactly ten), and the
\* call changes nothing of the scheduler or the store.
C15_ShouldUpdate ==
    [][(ret'.f = "should_update" /\ ret' # ret)
          => /\ ret'.value = (last_update = None \/ now - last_update > 10)
             /\ UNCHANGED <<last_update, update_results, is_updating, db, now>>]_vars

\* C15 witness: should_update has returned false exactly ten minutes after
\* last_update.
C15_Witness ==
    /\ ret.f = "should_update" /\ ret.value = FALSE
    /\ last_update # None /\ now - last_update = 10

\* the zones the last call of the zone assessment returned
ReturnedZones ==
    IF ret.f = "process_conflicts_to_zones" THEN {ret.value[k] : k \in 1..Len(ret.value)} ELSE {}

\* C19 as stated: the score of every zone the zone assessment returns lies
\* in [0, 100], whatever the cached events are.
C19_ScoreInRange ==
    \A zone \in ReturnedZones : zone.risk_score >= 0 /\ zone.risk_score <= 100

\* C20: the level of every zone the zone assessment returns, historical or
\* live, is Critical for a score of 80 or more, else High for 60 or more,
\* else Medium for 40 or more, else Low.
C20_LevelIsStepOfScore ==
    \A zone \in ReturnedZones :
        zone.risk_level =
            (CASE zone.risk_score >= 80 -> "Critical"
               [] zone.risk_score >= 60 /\ zone.risk_score < 80 -> "High"
               [] zone.risk_score >= 40 /\ zone.risk_score < 60 -> "Medium"
               [] zone.risk_score < 40 -> "Low")

\* C20 witness: the zones returned hold a live zone of score exactly 80 that
\* is Critical, next to the historical zone of score 58 that is Medium.
C20_Witness ==
    /\ \E zone \in ReturnedZones :
          zone.data_status = LIVE /\ zone.risk_score = 80 /\ zone.risk_level = "Critical"
    /\ \E zone \in ReturnedZones :
          zone.data_status = HISTORICAL /\ zone.risk_score = 58 /\ zone.risk_level = "Medium"

\* C16: a refresh scheduled by POST /api/trigger-update that runs its check
\* while no cycle is in progress can start its cycle, whatever should_update
\* says; the handler has returned by then, the refresh is a task of its own.
C16_TriggerIgnoresInterval ==
    \A t \in Tasks \ {0} :
        (pc[t] = "scheduled" /\ ~is_updating) => ENABLED run_batch_update_start(t)

\* C16 witness: the refresh of a trigger is fetching although the last cycle
\* completed less than ten minutes ago.
C16_Witness ==
    \E t \in Tasks \ {0} :
        /\ pc[t] = "gather"
        /\ last_update # None /\ now - last_update < 10
        /\ ~should_update(last_update, now)

\* C17 as stated: once the startup cycle has completed, a new cycle starts
\* sooner or later unless a manual trigger is sent.
C17_PeriodicRefresh ==
    (pc[0] = "done" /\ Ran(0))
        ~> (\/ \E t \in Tasks \ {0} : pc[t] # "unborn"
            \/ Cardinality({t \in Tasks : Ran(t)}) > 1)

\* C18: system_meta never holds more than one record; the step in which a
\* cycle writes its metadata leaves the one record last_batch_update, whose
\* next_update is its timestamp plus ten minutes and whose results are the
\* outcomes of the routines of that cycle.
C18_MetaSingleton ==
    [][/\ Len(db'["system_meta"]) <= 1
       /\ \A t \in Tasks :
             (pc[t] = "meta" /\ db'["system_meta"] # db["system_meta"])
                 => LET doc == db'["system_meta"][1]
                    IN  /\ doc["_id"] = "last_batch_update"
                        /\ doc.timestamp = last_update
                        /\ doc.next_update = doc.timestamp + 10
                        /\ DOMAIN doc.results = {sources[i] : i \in Routines}
                        /\ \A i \in Routines :
                              doc.results[sources[i]] =
                                 [status |-> IF results[t][i].st = "raised"
                                             THEN "error" ELSE "success",
                                  message |-> results[t][i].message]]_vars

\* C18 witness: two cycles have run and system_meta holds the one record of
\* the second, in which a routine raised.
C18_Witness ==
    \E t \in Tasks :
        /\ last_cycle = t /\ pc[t] = "done"
        /\ \A u \in Tasks : Ran(u) /\ pc[u] = "done"
        /\ Len(db["system_meta"]) = 1
        /\ MetaDoc.timestamp = last_update /\ MetaDoc.timestamp > 1
        /\ \E i \in Routines : MetaDoc.results[sources[i]].status = "error"

\* ------------------------------------------------- claims on the handlers
\* what the last request GET /api/conflict-zones or GET /api/herds answered
AnsweredZones == IF ret.f = "get_conflict_zones" THEN ret.value.zones ELSE <<>>
AnsweredHerds == IF ret.f = "get_herds" THEN ret.value.herds ELSE <<>>

\* the caches the herd generator reads held nothing when the last request,
\* for the herds, read them
SignalCachesEmpty == \A k \in 1..4 : ret.seen[k] = <<>>

\* every collection the last request read was empty
ColdStart == ret.f # "none" /\ \A k \in 1..Len(ret.seen) : ret.seen[k] = <<>>

\* C21 as stated: the zones GET /api/conflict-zones answers are in falling
\* order of score, and of two zones of one score the one that was built
\* first (live zones before the static ones, the static ones in the order
\* CZ1..CZ5) comes first, with live zones and without.
C21_SortedByScore ==
    \A i, j \in 1..Len(AnsweredZones) :
        i < j =>
            /\ AnsweredZones[i].risk_score >= AnsweredZones[j].risk_score
            /\ (AnsweredZones[i].risk_score = AnsweredZones[j].risk_score
                   => ~(AnsweredZones[i].data_status = HISTORICAL
                        /\ AnsweredZones[j].data_status = LIVE))

\* C24 as stated: two requests for the zones over the same collections,
\* the metadata record missing or not, are answered alike in every field,
\* whenever they are served.
C24_ZonesPureInCache ==
    [][(ret.f = "get_conflict_zones" /\ ret'.f = "get_conflict_zones"
           /\ ret'.seen = ret.seen)
          => ret'.value = ret.value]_vars

\* C25 as stated: two requests for the herds over the same collections, the
\* metadata record missing or not, are answered with the same herds in
\* every field.
C25_HerdsDeterministic ==
    [][(ret.f = "get_herds" /\ ret'.f = "get_herds" /\ ret'.seen = ret.seen)
          => ret'.value.herds = ret.value.herds]_vars

\* the defaults of the eight herds: ndvi, soil_moisture, rainfall_30d
FallbackTable ==
    [A |-> <<410, 2000, 500>>, B |-> <<520, 2500, 600>>, C |-> <<380, 1500, 300>>,
     D |-> <<450, 1800, 400>>, E |-> <<310, 1200, 250>>, F |-> <<600, 2800, 700>>,
     G |-> <<650, 3000, 800>>, H |-> <<350, 2000, 350>>]

\* C26: while the ndvi, soil moisture, CHIRPS and fire caches hold nothing,
\* the herds answered are eight, and the ndvi, soil_moisture and
\* rainfall_30d of each are the defaults of that herd (Herd Alfa: 0.41,
\* 0.2, 50), present and neither zero nor None.
C26_FallbackValues ==
    (ret.f = "get_herds" /\ SignalCachesEmpty) =>
        /\ Len(AnsweredHerds) = 8
        /\ \A k \in 1..Len(AnsweredHerds) :
              LET h == AnsweredHerds[k]
              IN  /\ {"ndvi", "soil_moisture", "rainfall_30d"} \subseteq DOMAIN h
                  /\ <<h.ndvi, h.soil_moisture, h.rainfall_30d>> = FallbackTable[h.id]
                  /\ \A v \in {h.ndvi, h.soil_moisture, h.rainfall_30d} : v \notin {0, None}

\* C26 witness: the herds were answered over empty caches and Herd Alfa
\* carries 0.41, 0.2 and 50.
C26_Witness ==
    /\ ret.f = "get_herds" /\ SignalCachesEmpty
    /\ AnsweredHerds[1].name = "Herd Alfa"
    /\ AnsweredHerds[1].ndvi = 410 /\ AnsweredHerds[1].soil_moisture = 2000
    /\ AnsweredHerds[1].rainfall_30d = 500

\* C27 as stated: Herd Alfa and Herd Echo both read the CHIRPS rainfall of
\* Jonglei; while the cache holds no record of Jonglei they are answered
\* with the same rainfall_30d.
C27_OneFallbackPerZone ==
    (ret.f = "get_herds" /\ \A k \in 1..Len(ret.seen[4]) : ret.seen[4][k].name # "Jonglei")
        => \A h, g \in {AnsweredHerds[k] : k \in 1..Len(AnsweredHerds)} :
              (h.name \in {"Herd Alfa", "Herd Echo"} /\ g.name \in {"Herd Alfa", "Herd Echo"})
                  => h.rainfall_30d = g.rainfall_30d

\* the fields of the eight herds that no reading enters
StaticHerds ==
    <<[id |-> "A", name |-> "Herd Alfa", heads |-> 8200, ethnicity |-> "Nuer",
       region |-> "Jonglei - Sobat Valley", lat |-> 832, lng |-> 3318],
      [id |-> "B", name |-> "Herd Bravo", heads |-> 5400, ethnicity |-> "Nuer",
       region |-> "Unity State - Rubkona", lat |-> 924, lng |-> 2976],
      [id |-> "C", name |-> "Herd Charlie", heads |-> 11800, ethnicity |-> "Dinka",
       region |-> "Warrap - Tonj East", lat |-> 728, lng |-> 2868],
      [id |-> "D", name |-> "Herd Delta", heads |-> 6700, ethnicity |-> "Shilluk",
       region |-> "Upper Nile - Malakal", lat |-> 954, lng |-> 3166],
      [id |-> "E", name |-> "Herd Echo", heads |-> 14200, ethnicity |-> "Murle",
       region |-> "Jonglei - Pibor", lat |-> 680, lng |-> 3312],
      [id |-> "F", name |-> "Herd Foxtrot", heads |-> 4300, ethnicity |-> "Dinka",
       region |-> "Lakes - Rumbek", lat |-> 682, lng |-> 2968],
      [id |-> "G", name |-> "Herd Golf", heads |-> 3800, ethnicity |-> "Mundari",
       region |-> "Equatoria - Terekeka", lat |-> 548, lng |-> 3178],
      [id |-> "H", name |-> "Herd Hotel", heads |-> 9100, ethnicity |-> "Dinka",
       region |-> "Bahr el Ghazal - Aweil", lat |-> 878, lng |-> 2740]>>

\* the fields of a herd the claim lets differ between two cache states: the
\* three readings, the fire annotation, and the texts derived from them
DerivedFields ==
    {"ndvi", "soil_moisture", "rainfall_30d", "fire_alert", "nearby_fires", "note", "evidence"}

\* the two herd lists hold, herd by herd, the same fields with the same
\* values, the fields of the set varying apart
AgreeOutside(herds, others, varying) ==
    /\ Len(herds) = Len(others)
    /\ \A k \in 1..Len(herds) :
          \A field \in ((DOMAIN herds[k]) \cup (DOMAIN others[k])) \ varying :
              /\ field \in DOMAIN herds[k] /\ field \in DOMAIN others[k]
              /\ herds[k][field] = others[k][field]

\* the herds of a cold start at minute 0
ColdHerds == generate_evidence_based_herds(<<>>, <<>>, <<>>, <<>>, <<>>, 0)

\* the herds of an answer are the eight of the table
TheEightHerds ==
    /\ Len(AnsweredHerds) = Len(StaticHerds)
    /\ ret.value.count = 8
    /\ \A k \in 1..Len(AnsweredHerds) :
          /\ \A field \in DOMAIN StaticHerds[k] :
                field \in DOMAIN AnsweredHerds[k]
                    /\ AnsweredHerds[k][field] = StaticHerds[k][field]
          /\ AnsweredHerds[k].note.text # ""

\* C28 as stated: whatever the caches hold, the herds answered are the same
\* eight, each with its id, name, heads, ethnicity, region, lat and lng; and
\* of two answers only ndvi, soil_moisture, rainfall_30d, the fire
\* annotation and the text derived from them differ.
C28_OnlyReadingsDiffer ==
    [][(ret.f = "get_herds" /\ ret'.f = "get_herds")
          => /\ TheEightHerds'
             /\ AgreeOutside(ret.value.herds, ret'.value.herds, DerivedFields)]_vars

\* C28 amended: whatever the caches hold, the herds answered are the same
\* eight, each with its id, name, heads, ethnicity, region, lat and lng; and
\* of two answers only ndvi, soil_moisture, rainfall_30d, the fire
\* annotation, the text derived from them and last_updated (the timestamp of
\* the metadata record, or the time of the request when there is none)
\* differ: every answer agrees in every other field with the answer of a
\* cold start.
C28_StaticHerdFields ==
    ret.f = "get_herds" =>
        /\ TheEightHerds
        /\ AgreeOutside(AnsweredHerds, ColdHerds, DerivedFields \cup {"last_updated"})

\* C28 witness: herds were answered whose readings come from the cache:
\* Herd Alfa with an ndvi that is not its default, a fire annotation, and
\* the timestamp of the metadata record as last_updated.
C28_Witness ==
    /\ ret.f = "get_herds"
    /\ AnsweredHerds[1].ndvi # 410
    /\ "fire_alert" \in DOMAIN AnsweredHerds[1] /\ AnsweredHerds[1].note.alert = 1
    /\ ret.seen[5] # <<>>
    /\ AnsweredHerds[1].last_updated = ret.seen[5][1].timestamp
    /\ AnsweredHerds[1].last_updated # ColdHerds[1].last_updated

\* C29: a step that serves GET /api/herds or GET /api/conflict-zones leaves
\* every collection, system_meta among them, and is_updating, last_update
\* and update_results as they were, and runs no routine, the only code that
\* calls an upstream source.
C29_HandlersReadOnly ==
    [][(req' # req \/ ret' # ret)
          => /\ db' = db
             /\ is_updating' = is_updating
             /\ last_update' = last_update
             /\ update_results' = update_results
             /\ call' = call /\ faults' = faults /\ results' = results]_vars

\* C29 witness: both handlers have served a request over caches that hold
\* records, the metadata record among them.
C29_Witness ==
    /\ calls = 2 /\ req = NoReq /\ ret.f = "get_conflict_zones"
    /\ db["system_meta"] # <<>> /\ db["ndvi_cache"] # <<>> /\ db["acled_events"] # <<>>
    /\ ret.seen[1] = db["acled_events"] /\ ret.seen[3] = db["system_meta"]
    /\ ret.value.live_zones > 0

\* C30: while every collection is empty and no metadata record exists,
\* GET /api/herds answers the eight herds with their defaults (63500 head
\* in all) and GET /api/conflict-zones the five static zones CZ1..CZ5;
\* neither list is empty.
C30_ColdStartPayload ==
    ColdStart =>
        /\ ret.f = "get_herds" =>
              /\ [k \in 1..Len(AnsweredHerds) |-> AnsweredHerds[k].id]
                    = <<"A", "B", "C", "D", "E", "F", "G", "H">>
              /\ ret.value.count = 8 /\ ret.value.total_cattle = 63500
              /\ ret.value.last_updated = None
              /\ \A k \in 1..Len(AnsweredHerds) :
                    <<AnsweredHerds[k].ndvi, AnsweredHerds[k].soil_moisture,
                      AnsweredHerds[k].rainfall_30d>> = FallbackTable[AnsweredHerds[k].id]
        /\ ret.f = "get_conflict_zones" =>
              /\ {AnsweredZones[k].id : k \in 1..Len(AnsweredZones)}
                    = {"CZ1", "CZ2", "CZ3", "CZ4", "CZ5"}
              /\ Len(AnsweredZones) = 5 /\ ret.value.count = 5
              /\ ret.value.historical_zones = 5 /\ ret.value.live_zones = 0
              /\ ret.value.data_status = HISTORICAL

\* C30 witness: on a cold start the herds were answered and then the zones.
C30_Witness ==
    /\ ColdStart /\ calls = 2 /\ req = NoReq
    /\ \A c \in CollectionNames : db[c] = <<>>
    /\ ret.f = "get_conflict_zones" /\ Len(AnsweredZones) = 5

\* --------------------------------------------- claims on the risk engine
\* The assessment as section 4.2 of the specification states it, in exact
\* fractions <<numerator, denominator>>, on the zones and the herds the
\* handlers answer (lat and lng in 1/100 degree, radius in metres, ndvi in
\* 1/1000).
RECURSIVE Gcd(_, _)
Gcd(a, b) == IF b = 0 THEN a ELSE Gcd(b, a % b)

Frac(n, d) == LET g == Gcd(Abs(n), d) IN <<n \div g, d \div g>>
Plus(x, y) == Frac(x[1] * y[2] + y[1] * x[2], x[2] * y[2])
Times(x, y) == Frac(x[1] * y[1], x[2] * y[2])
Leq(x, y) == x[1] * y[2] <= y[1] * x[2]
Whole(n) == <<n, 1>>

\* the entity lies within twice the radius of the zone: Euclidean distance
\* in degrees against 2 * radius / 111000
in_range(zone, entity) ==
    LET dlat == entity.lat - zone.lat
        dlng == entity.lng - zone.lng
    IN  dlat * dlat + dlng * dlng <= ((zone.radius \div 5) * (zone.radius \div 5)) \div 12321

nearby(zone, entities) == SelectSeq(entities, LAMBDA e : in_range(zone, e))

\* min(1.0, n / 3)
convergence_factor(n) == IF n >= 3 THEN Whole(1) ELSE Frac(n, 3)

\* the sum of the fractions from the i-th on
RECURSIVE sum_from(_, _)
sum_from(values, i) ==
    IF i > Len(values) THEN Whole(0) ELSE Plus(values[i], sum_from(values, i + 1))

\* the average of the stress of the nearby entities; 0 if none are nearby
average(values) ==
    IF values = <<>> THEN Whole(0) ELSE Times(sum_from(values, 1), Frac(1, Len(values)))

\* max(0, (5 - water_days) / 5)
water_stress(entity) ==
    IF entity.water_days >= 5 THEN Whole(0) ELSE Frac(5 - entity.water_days, 5)

\* max(0, (0.5 - vegetation_index) / 0.5)
vegetation_stress(entity) ==
    IF entity.ndvi >= 500 THEN Whole(0) ELSE Frac(500 - entity.ndvi, 500)

\* convergence x 0.25 + water x 0.25 + vegetation x 0.20 + weather x 0.15 +
\* historical-violence prior x 0.15
combined_modifier(convergence, water, vegetation, weather, violence) ==
    Plus(Plus(Plus(Times(convergence, Frac(1, 4)), Times(water, Frac(1, 4))),
              Plus(Times(vegetation, Frac(1, 5)), Times(weather, Frac(3, 20)))),
         Times(violence, Frac(3, 20)))

\* risk_prior x (0.7 + combined_modifier x 0.6), clamped to [0, 100]
final_score(risk_prior, modifier) ==
    LET raw == Times(Whole(risk_prior), Plus(Frac(7, 10), Times(modifier, Frac(3, 5))))
    IN  IF Leq(raw, Whole(0)) THEN Whole(0)
        ELSE IF Leq(Whole(100), raw) THEN Whole(100) ELSE raw

\* the herds the generator returns over the store as it is
HerdsNow ==
    generate_evidence_based_herds(db["ndvi_cache"], db["fire_cache"],
                                  db["soil_moisture_cache"], db["chirps_cache"],
                                  db["system_meta"], now)

\* the modifier of a zone over the herds and the weather as they are, for a
\* historical-violence prior; the read harness holds no weather window, so
\* the weather stress is 0
ModifierNow(zone, violence) ==
    LET near == nearby(zone, HerdsNow)
    IN  combined_modifier(convergence_factor(Len(near)),
                          average([k \in 1..Len(near) |-> water_stress(near[k])]),
                          average([k \in 1..Len(near) |-> vegetation_stress(near[k])]),
                          Whole(0), violence)

\* the static zones of the answer; their risk prior is the score of the table
AnsweredStaticZones ==
    {AnsweredZones[k] : k \in {j \in 1..Len(AnsweredZones) :
                                   AnsweredZones[j].data_status = HISTORICAL}}

\* C22 as stated: the score of every static zone GET /api/conflict-zones
\* answers is its risk prior times (0.7 + 0.6 x combined modifier), cut to
\* [0, 100], for the herds and the weather as they are and some
\* historical-violence prior between 0 and 1.
C22_ScoreFromPrior ==
    \A zone \in AnsweredStaticZones :
        /\ Leq(final_score(zone.risk_score, ModifierNow(zone, Whole(0))), Whole(zone.risk_score))
        /\ Leq(Whole(zone.risk_score), final_score(zone.risk_score, ModifierNow(zone, Whole(1))))

\* C23 as stated: every zone GET /api/conflict-zones answers carries the
\* convergence factor min(1, n / 3) of the n herds within twice its radius.
C23_ConvergenceSaturates ==
    \A k \in 1..Len(AnsweredZones) :
        /\ "convergence" \in DOMAIN AnsweredZones[k]
        /\ AnsweredZones[k].convergence =
              convergence_factor(Len(nearby(AnsweredZones[k], HerdsNow)))

\* -------------------------------------------- claims on the stored caches
\* the zone list the last call of the zone assessment returned, if it returned
ZonesReturned ==
    IF ret.f = "process_conflicts_to_zones" /\ "value" \in DOMAIN ret THEN ret.value ELSE <<>>

\* the conflict cache the last call of the zone assessment was answered from
EventsSeen == IF ret.f = "process_conflicts_to_zones" THEN ret.seen[1] ELSE <<>>

\* the grid cells the located events of the conflict cache round to
CachedCells ==
    {grid_key(EventsSeen[k]) : k \in {j \in 1..Len(EventsSeen) : located(EventsSeen[j])}}

\* the places of the returned list that hold the live zone of a cell
ZonesOfCell(key) ==
    {k \in 1..Len(ZonesReturned) :
        /\ ZonesReturned[k].data_status = LIVE
        /\ ZonesReturned[k].id = <<"LIVE", key[1], key[2]>>}

\* C31 as stated: whatever events the conflict routine stored, fatalities,
\* dates and coordinates that are missing, null or no number included, the
\* zone assessment returns a zone list and never raises
C31_NeverRaises == ret.f = "process_conflicts_to_zones" => "value" \in DOMAIN ret

\* C37 as stated: the zone assessment emits a live zone for a half-degree
\* cell exactly when three or more cached events with non-zero numeric
\* coordinates round to the cell (the cut to twelve zones apart); the zone
\* counts these events, sums their fatalities and scores
\* min(100, 20 + 5 x events + 2 x fatalities)
C37_LiveZonePerCell ==
    ret.f = "process_conflicts_to_zones" =>
        /\ "value" \in DOMAIN ret
        /\ \A k \in 1..Len(ZonesReturned) :
               ZonesReturned[k].data_status = LIVE =>
                   \E key \in CachedCells : k \in ZonesOfCell(key)
        /\ \A key \in CachedCells :
               LET events == group(EventsSeen, key)
               IN  /\ Len(events) >= 3 =>
                          ZonesOfCell(key) # {} \/ Len(ZonesReturned) = 12
                   /\ \A k \in ZonesOfCell(key) :
                          /\ Len(events) >= 3
                          /\ ZonesReturned[k].recent_incidents = Len(events)
                          /\ ZonesReturned[k].total_fatalities = total_fatalities(events, 1)
                          /\ ZonesReturned[k].risk_score =
                                 Min(100, 20 + 5 * Len(events)
                                            + 2 * total_fatalities(events, 1))

\* the static zones the returned list leaves out
LeftOut ==
    {z \in {historical_zones(0)[k] : k \in 1..5} :
        \A k \in 1..Len(ZonesReturned) :
            ZonesReturned[k].data_status = HISTORICAL => ZonesReturned[k].id # z.id}

\* C38 as stated: for every cache content the zone assessment returns five
\* to twelve zones: the five static zones alone when no cell holds three
\* events, and otherwise a static zone is left out only when twelve zones
\* that score no less are returned before it
C38_FiveToTwelve ==
    ret.f = "process_conflicts_to_zones" =>
        /\ "value" \in DOMAIN ret
        /\ Len(ZonesReturned) \in 5..12
        /\ (\A key \in CachedCells : Len(group(EventsSeen, key)) < 3)
              => ZonesReturned = historical_zones(last_updated_str(ret.seen[2], ret.clock))
        /\ \A z \in LeftOut :
              /\ Len(ZonesReturned) = 12
              /\ \A k \in 1..12 : ZonesReturned[k].risk_score >= z.risk_score

\* C37 and C38 where the zone assessment returns: both hold of every list
\* it returns
C37_WhenReturned ==
    (ret.f = "process_conflicts_to_zones" /\ "value" \notin DOMAIN ret) \/ C37_LiveZonePerCell
C38_WhenReturned ==
    (ret.f = "process_conflicts_to_zones" /\ "value" \notin DOMAIN ret) \/ C38_FiveToTwelve

\* ------------------------------------------------ claims on the analysis
\* the last request for analysis reached the model and the call failed
LlmFailed ==
    /\ ret.f = "ai_analyze"
    /\ "llm" \in DOMAIN ret
    /\ ret.llm.raised

\* C32 as stated: when the call of the model fails, POST /api/ai/analyze is
\* answered 5xx with a message that does not carry the text of the error,
\* and no record is written to ai_history
C32_GenericFailure ==
    LlmFailed =>
        /\ ret.status >= 500
        /\ ret.detail.error # ret.llm.text
        /\ ret.after = ret.before

\* C32 without the message: the answer is 500 and ai_history is as before
C32_NoRecord ==
    LlmFailed => ret.status = 500 /\ ret.after = ret.before

\* ------------------------------------------------- claims on the fire alert
\* the hotspots among fires that lie less than half a degree from the herd
\* in latitude and in longitude
HotspotsNear(fires, h) ==
    {k \in 1..Len(fires) :
        within_half_degree(fires[k].lat, h.lat) /\ within_half_degree(fires[k].lng, h.lng)}

\* the herds of the answer carry the alert exactly for the hotspots of fires
AlertsFor(fires) ==
    \A k \in 1..Len(AnsweredHerds) :
        LET h == AnsweredHerds[k]
            near == HotspotsNear(fires, h)
        IN  IF near # {}
            THEN /\ "fire_alert" \in DOMAIN h /\ h.fire_alert = TRUE
                 /\ h.nearby_fires = Cardinality(near)
            ELSE "fire_alert" \notin DOMAIN h

\* C33 as stated: a herd carries fire_alert = true exactly when the fire
\* cache holds a hotspot less than 0.5 degrees away in latitude and in
\* longitude, nearby_fires is then the number of these hotspots, and a herd
\* without such a hotspot has no fire_alert field
C33_FireAlert == ret.f = "get_herds" => AlertsFor(ret.seen[2])

\* C33 of the hotspots that are read: the first thousand of the cache
C33_FirstThousand ==
    ret.f = "get_herds" =>
        ret.read[2] = get_cached_fires(ret.seen[2]) /\ AlertsFor(ret.read[2])

\* ------------------------------------------- claims on the refresh record
\* C34 as stated: whenever no refresh is in progress and a cycle of this
\* process has completed and left its record, the scheduler's last_update
\* equals the timestamp of the record persisted in system_meta
C34_LastUpdatePersisted ==
    (~is_updating /\ MetaDoc # NoDoc) => last_update = MetaDoc.timestamp

\* the step in which the cycle of t joins its gather: every routine of the
\* cycle has run to its end
JoinsGather(t) ==
    /\ pc[t] = "gather" /\ pc'[t] = "meta"
    /\ \A i \in Routines : results[t][i].st \in {"returned", "raised"}

\* a call is skipped in this step only after another call has started its
\* cycle
SkippedAfterStart ==
    \A t \in Tasks :
        (t \in dropped' /\ t \notin dropped) => \E u \in Tasks \ {t} : Ran(u)

\* C35 as stated: the scheduler starts with is_updating false and
\* last_update None; last_update changes only in the step that ends the
\* gather of a cycle whose routines all ran, and never to an earlier time;
\* and a call is skipped only after another call has started its cycle, so
\* the first refresh after the start runs
C35_LastUpdateMonotone ==
    /\ is_updating = FALSE /\ last_update = None
    /\ [][(last_update' # last_update =>
                /\ \E t \in Tasks : JoinsGather(t)
                /\ last_update = None \/ last_update' >= last_update)
           /\ SkippedAfterStart]_vars

\* C35 amended: the scheduler starts with is_updating false and last_update
\* None; last_update is assigned only in the step that ends the gather of a
\* cycle whose routines all ran, and it is then what the wall clock reads in
\* that step: it is no earlier than before unless the wall clock was set
\* back since the cycle before; and a call is skipped only after another
\* call has started its cycle, so the first refresh after the start runs
C35_LastUpdateIsClockAtJoin ==
    /\ is_updating = FALSE /\ last_update = None
    /\ [][((\E t \in Tasks : JoinsGather(t)) => last_update' = now')
           /\ (last_update' # last_update =>
                  /\ \E t \in Tasks : JoinsGather(t)
                  /\ (last_update = None \/ now' >= now) => last_update' >= last_update)
           /\ SkippedAfterStart]_vars

\* C35 witness: a second cycle has ended its gather after the wall clock was
\* set back: last_update is earlier than the timestamp the first cycle
\* recorded
C35_Witness ==
    \E t \in Tasks :
        /\ pc[t] = "meta" /\ Ran(t)
        /\ MetaDoc # NoDoc /\ last_update < MetaDoc.timestamp

\* ----------------------------------- claims on a read during a replacement
\* the items the routine under way during the last read has fetched
BatchDuring ==
    Routine(ret.during.i, <<>>, [ret.during.inp EXCEPT !.db_fail = 0], GEE_INITIALIZED).coll

\* every item of the list is of the batch
ItemsOf(list, batch) == \A k \in 1..Len(list) : \E j \in 1..Len(batch) : list[k] = batch[j]

\* the last read got the previous batch, or nothing, or items of the new
\* batch only
OneBatch ==
    \/ ret.value = get_cached(ret.i, ret.during.before)
    \/ ret.value = <<>>
    \/ ItemsOf(ret.value, BatchDuring)

C36_EmptyBetween ==
    /\ ret.f = "get_cached" /\ ret.during.i = ret.i
    /\ ret.value = <<>> /\ ret.during.before # <<>> /\ BatchDuring # <<>>
    /\ BatchDuring # ret.during.before

\* ------------------------------------------------ claims on the ndvi cache
\* the reading of an ndvi document, scaled to 1/10^7 and clamped to [0, 1]
ClampedReading(doc) ==
    LET raw == doc.raw_value
    IN  IF raw.value > 1000 \/ (raw.value = 1000 /\ raw.side > 0)
        THEN Min(10000000, raw.value) ELSE 10000 * Max(0, raw.value)

\* the clamped reading of the document is below 0.1
BelowTenth(doc) ==
    \/ ClampedReading(doc) < 1000000
    \/ ClampedReading(doc) = 1000000 /\ doc.raw_value.side < 0

\* C39: every ndvi value in ndvi_cache lies in [0.1, 1]; a document tagged
\* LIVE holds its reading, scaled, clamped to [0, 1] and rounded to three
\* places, and that reading is 0.1 at least; a reading below 0.1 is stored
\* as the fallback of its region and tagged ESTIMATED
C39_NdviInRange ==
    \A k \in 1..Len(db["ndvi_cache"]) :
        LET doc == db["ndvi_cache"][k]
        IN  /\ doc.ndvi >= 100 /\ doc.ndvi <= 1000
            /\ doc.data_status \in {LIVE, ESTIMATED, HISTORICAL}
            /\ doc.data_status = LIVE =>
                  /\ ~BelowTenth(doc)
                  /\ 10000 * doc.ndvi - ClampedReading(doc) \in -5000..5000
            /\ doc.data_status = ESTIMATED =>
                  BelowTenth(doc) /\ doc.ndvi = fallback_ndvi(doc.name)
            /\ doc.data_status = HISTORICAL => doc.ndvi = fallback_ndvi(doc.name)

\* C39 witness: the cache holds a reading above the scale stored as 1.0 and
\* tagged LIVE, and a negative reading replaced by the fallback of its region
C39_Witness ==
    /\ \E k \in 1..Len(db["ndvi_cache"]) :
          LET doc == db["ndvi_cache"][k]
          IN  doc.data_status = LIVE /\ doc.raw_value.value > 10000000 /\ doc.ndvi = 1000
    /\ \E k \in 1..Len(db["ndvi_cache"]) :
          LET doc == db["ndvi_cache"][k]
          IN  doc.data_status = ESTIMATED /\ doc.raw_value.value < 0
                /\ doc.ndvi = fallback_ndvi(doc.name)
====
